---- MODULE Spec2Model ----
(***************************************************************************)
(* Verification model of the HomeStore persistence core.                   *)
(*                                                                         *)
(*   Part I  : WriteBackCache  (engine/homeds/btree/writeBack_cache.hpp)   *)
(*   Part II : LogDev          (logdev/log_dev.cpp, lib/logstore/log_dev.hpp)*)
(*                                                                         *)
(* Each part has its own specification (SpecWB, SpecLD); the variables of  *)
(* the other part stay at their initial value.                             *)
(***************************************************************************)
EXTENDS Integers, Sequences, FiniteSets, TLC

(***************************************************************************)
(* Bounds of the model                                                     *)
(***************************************************************************)
MaxCp == 3          \* checkpoints 1..MaxCp are prepared
MaxNodes == 3       \* btree nodes 1..MaxNodes
MaxWrites == 3      \* calls of WriteBackCache::write (SpecWB)
MaxFree == 2        \* calls of WriteBackCache::free_blk (SpecWBFree)
MaxWritesFree == 1  \* calls of WriteBackCache::write (SpecWBFree)
MaxAppends == 3     \* calls of LogDev::append_async
MaxStops == 2       \* calls of LogDev::stop (SpecLDSeq)
MaxGroups == 3      \* log groups prepared by LogDev::prepare_flush
MaxLocks == 1       \* calls of LogDev::try_lock_flush
MaxRollbacks == 2   \* rollback() calls
MaxAllocs == 2      \* alloc() calls of the one writer
MaxConcAllocs == 3  \* alloc() calls of the concurrent callers
MaxAbFrees == 1     \* free() calls on the append allocator
MaxResets == 1      \* reset() calls
MaxReboots == 1     \* restarts of the append allocator
MaxReserves == 2    \* reserve_on_disk / reserve_on_cache calls made step by step
MaxCpFlushes == 3   \* cp_flush calls (SpecABACp)
MaxRefresh == 1     \* refresh_buf calls without a write behind them
MaxMemWrites == 2   \* write() calls of the mutators that refresh before they write
MaxSetErrors == 3   \* set_error calls
MaxInits == 1       \* init() calls on the request after the first
MaxReads == 1       \* calls of LogDev::read

(***************************************************************************)
(* Program constants                                                       *)
(***************************************************************************)
MAX_CP_CNT == 2

WB_REQ_INIT == "INIT"
WB_REQ_WAITING == "WAITING"
WB_REQ_SENT == "SENT"
WB_REQ_COMPL == "COMPL"

Nodes == 1..MaxNodes
Cps == 1..MaxCp
Slots == 0..(MAX_CP_CNT - 1)
NoNode == 0
NoReq == 0
NoCp == 0

LOG_GROUP_HDR_MAGIC == 15731998       \* 0xF00D1E
dma_address_boundary == 512
initial_read_size == 4096
LogGroupHeaderSize == 48              \* sizeof(log_group_header), packed
SerializedLogRecordSize == 20         \* sizeof(serialized_log_record), packed
OptimalInlineDataSize == 512          \* logstore.optimal_inline_data_size
FlushThresholdSize == 8192            \* logstore.flush_threshold_size
INVALID_CRC32_VALUE == 0
max_blks_read_for_additional_check == 4
CrcModulus == 65521

TotalBlks == 4            \* BlkAllocConfig: blocks of the chunk
MaxBlksPerBlkid == 2      \* max_blks_per_blkid()
BlkNumModulus == 65536    \* blk_num_t arithmetic wraps (width scaled down)
NoHint == -1              \* blk_alloc_hints::reserved_blks without a value
AbCallers == {"a1", "a2"}
AllocSizes == 1..3
AllocHints == {NoHint, 1, 5}
NoBid == [blk_num |-> -1, blk_count |-> 0]
Threads == {"t1", "t2"}
\* payload sizes: one that is inlined (not a multiple of the dma boundary) and
\* one that goes out of band
InlineSize == 2000
OobSize == 4096
Sizes == {InlineSize, OobSize}

VARIABLES
    \* ---- WriteBackCache ------------------------------------------------
    reqs,             \* all writeback_req objects ever made: id -> record
    node_req,         \* SSDBtreeNode::req[MAX_CP_CNT]  : node -> slot -> req id
    node_bcp,         \* SSDBtreeNode::bcp              : node -> cp id
    m_req_list,       \* m_req_list[MAX_CP_CNT]         : slot -> Seq(req id)
    m_dirty_buf_cnt,  \* m_dirty_buf_cnt[MAX_CP_CNT]    : slot -> Int
    m_free_list,      \* m_free_list[MAX_CP_CNT]        : slot -> Seq([bid, cp])
    m_free_list_cnt,  \* m_free_list_cnt
    cp_free_list,     \* btree_cp::free_blkid_list      : cp -> list index or -1
    cp_phase,         \* checkpoint manager's view of each cp
    cp_blkalloc,      \* cp -> whether a blkalloc checkpoint is taken with it
    flush_it,         \* flush_buffers' iterator position : cp -> Nat
    succ_hist,        \* history: <<p, r>> when write() put r on p's req_q
    cp_comp_log,      \* log of m_cp_comp_cb invocations with a snapshot
    ba_freed,         \* what ba_cp->free_blks received: set of [bid, cp, with, done]
    wb_assert_ok,     \* FALSE once a HS_ASSERT of the cache would have fired
    n_writes,         \* number of write() calls made
    n_free,           \* number of free_blk() calls made
    \* ---- LogDev --------------------------------------------------------
    ld_state,         \* "new", "up" (started), "down" (stopped), "aborted"
    m_log_idx,        \* std::atomic< logid_t > m_log_idx
    m_log_records,    \* sisl::StreamTracker< log_record >: idx -> log_record
    m_pending_flush_size,
    m_is_flushing,
    m_last_flush_idx,
    m_last_crc,
    m_block_flush_q,  \* queued flush_blocked_callbacks (ids)
    inflight,         \* log groups handed to pwritev and not yet completed
    journal,          \* log groups on the device, in device order
    tail_offset,      \* where alloc_blk places the next group
    t_pc,             \* thread -> "idle" | "fetched" | "created"
    t_idx,            \* thread -> idx it got from fetch_add
    t_rec,            \* thread -> the log_record it appends
    lock_held,        \* a try_lock_flush caller holds m_is_flushing
    alloc_hist,       \* history: the indexes append_async handed out
    comp_log,         \* history: m_append_comp_cb invocations
    found_log,        \* m_logfound_cb invocations of the last start(false)
    dev_at_load,      \* the records on the device at the last start(false)
    last_read,        \* the last LogDev::read: key, expected and returned payload
    cb_run,           \* flush_blocked_callbacks that ran
    n_appends, n_stops, n_locks, n_reads, n_groups

wb_vars == <<reqs, node_req, node_bcp, m_req_list, m_dirty_buf_cnt, m_free_list,
             m_free_list_cnt, cp_free_list, cp_phase, cp_blkalloc, flush_it,
             succ_hist, cp_comp_log, ba_freed, wb_assert_ok,
             n_writes, n_free>>

ld_vars == <<ld_state, m_log_idx, m_log_records, m_pending_flush_size, m_is_flushing,
             m_last_flush_idx, m_last_crc, m_block_flush_q, inflight, journal,
             tail_offset, t_pc, t_idx, t_rec, lock_held, alloc_hist, comp_log,
             found_log, dev_at_load, last_read, cb_run,
             n_appends, n_stops, n_locks, n_reads, n_groups>>

VARIABLES
    \* ---- LogDevMetadata -------------------------------------------------
    m_rollback_sb,    \* superblk< rollback_superblk > : Seq(rollback_record), persisted
    n_rollbacks,      \* number of rollback() calls made
    \* ---- device failures ------------------------------------------------
    flush_failed,     \* history: the groups whose write the device failed
    \* ---- stop ------------------------------------------------------------
    stop_hist,        \* history: what stop() met when it was called on a busy device
    alloc_after_stop, \* history: indexes handed out after stop()
    \* ---- AppendBlkAllocator ---------------------------------------------
    m_last_append_offset,
    m_commit_offset,
    m_freeable_nblks,
    m_is_dirty,
    m_sb,             \* superblk< append_blk_sb_t > in memory: commit_offset, freeable_nblks
    sb_disk,          \* the metablock on the device: written, commit_offset, freeable_nblks
    ab_recovering,    \* the allocator was loaded and the journal is being replayed
    a_pc,             \* alloc caller -> 0, or the nblks its space check let through
    alloc_log,        \* history: successful allocs since the last reset or restart
    journal_bids,     \* BlkIds of earlier runs that a replay may reserve again
    cache_reserved,   \* those of them the replay has passed to reserve_on_cache
    last_alloc,       \* history: the last alloc() call, with the members before and after
    n_allocs, n_ab_frees, n_resets, n_reboots

md_vars == <<m_rollback_sb, n_rollbacks>>

st_vars == <<stop_hist, alloc_after_stop>>

io_vars == <<flush_failed>>

ab_vars == <<m_last_append_offset, m_commit_offset, m_freeable_nblks, m_is_dirty, m_sb,
             sb_disk, ab_recovering, a_pc, alloc_log, journal_bids, cache_reserved,
             last_alloc, n_allocs, n_ab_frees, n_resets, n_reboots>>

\* the objects modelled besides the write-back cache and the log device
ext_vars == <<md_vars, io_vars, st_vars, ab_vars>>

VARIABLES
    \* callers inside reserve_on_disk / reserve_on_cache
    r_pc,             \* caller -> where it is in the call, with its locals
    disk_max,         \* history: highest end passed to reserve_on_disk, or commit_offset at the restart
    cache_max,        \* history: the same for reserve_on_cache and last_append_offset
    n_reserves

rs_vars == <<r_pc, disk_max, cache_max, n_reserves>>

VARIABLES
    n_cp_flushes      \* cp_flush calls, those that found the flag clear included

cf_vars == <<n_cp_flushes>>

VARIABLES
    \* node buffers of the write-back cache
    node_mem,         \* SSDBtreeNode memvec            : node -> buffer id
    buf_data,         \* buffer id -> the bytes in it (a version number)
    req_mem,          \* writeback_req::m_mem           : req id -> buffer id
    req_img,          \* history: req id -> the node's bytes at its last write()
    last_refresh,     \* history: the last refresh_buf call: how the node's cp id compared, what it returned and did
    n_refresh         \* refresh_buf calls that were not followed by a write

mv_vars == <<node_mem, buf_data, req_mem, req_img, last_refresh, n_refresh>>

VARIABLES
    ul_pc             \* unlock_flush: "drained" between its queue block and its store to m_is_flushing

lk_vars == <<ul_pc>>

VARIABLES
    \* one vol_interface_req
    is_fail_completed,
    err,
    request_id,
    request_id_counter,   \* _counter_generator
    se_pc,            \* caller -> where it is in set_error, with its argument
    se_hist,          \* history: the set_error calls since init(), in the order of their compare-exchange
    n_set_errors,
    n_inits

ve_vars == <<is_fail_completed, err, request_id, request_id_counter, se_pc, se_hist,
             n_set_errors, n_inits>>

VARIABLES
    w_pc              \* the thread inside write(): "linking" between line 232 and the block at 234

wr_vars == <<w_pc>>

late_vars == <<lk_vars, ve_vars, wr_vars>>

VARIABLES
    call,             \* one call of a function on its own: the function and its arguments
    ret               \* what the call returned, NoRet before it ran

fn_vars == <<call, ret>>

VARIABLES
    \* ---- VirtualDev ------------------------------------------------------
    chunk_used,       \* chunk -> blocks its allocator has handed out
    out_blkid,        \* the caller's std::vector< BlkId >
    vd_pc,            \* where the caller is inside alloc_blk, with its locals
    vd_last           \* history: the alloc_blk call that returned last, with what it passed to free_blk; cleared by the next call

vd_vars == <<chunk_used, out_blkid, vd_pc, vd_last>>

tail_vars == <<fn_vars, vd_vars>>

\* what the later parts add
more_vars == <<rs_vars, cf_vars, mv_vars, late_vars, tail_vars>>

vars == <<wb_vars, ld_vars, ext_vars, more_vars>>

(***************************************************************************)
(* Part I : WriteBackCache                                                 *)
(***************************************************************************)

\* cp_id = bcp->cp_id % MAX_CP_CNT
CpSlot(c) == c % MAX_CP_CNT

\* writeback_req() constructor followed by the field assignments of write()
NewWbReq(bn, c) ==
    [state |-> WB_REQ_WAITING, bn |-> bn, cp |-> c, req_q |-> << >>,
     dependent_cnt |-> 1, cpl |-> "none", n_blkstore_write |-> 0]

ReqIds == 1..Len(reqs)
ReqsOfCp(c) == {r \in ReqIds : reqs[r].cp = c}

\* Number of m_cp_comp_cb invocations for checkpoint c
CbCount(c) == Cardinality({i \in 1..Len(cp_comp_log) : cp_comp_log[i].cp = c})

\* ---- checkpoint manager (caller of the cache) ---------------------------
\* A checkpoint has ended for its caller when the completion callback fired and,
\* if a block allocator checkpoint was taken with it, its free list was flushed.
CpDurable(c) == CbCount(c) > 0
CpEnded(c) == cp_phase[c] = "ended"

CurCp == IF \E c \in Cps : cp_phase[c] # "none"
         THEN CHOOSE c \in Cps : cp_phase[c] # "none" /\ \A d \in Cps : cp_phase[d] # "none" => d <= c
         ELSE NoCp

\* ---- prepare_cp ---------------------------------------------------------
\* Which free list (index into m_free_list) new_bcp gets, and the new counter.
PrepareFreeList_AlwaysShare(blkalloc_checkpoint, cur, cnt) ==
    IF cur = NoCp
    THEN [list |-> (cnt + 1) % MAX_CP_CNT, cnt |-> cnt + 1]
    ELSE [list |-> cp_free_list[cur], cnt |-> cnt]

PrepareFreeList_NoRotate(blkalloc_checkpoint, cur, cnt) ==
    IF blkalloc_checkpoint \/ cur = NoCp
    THEN [list |-> cnt % MAX_CP_CNT, cnt |-> cnt]
    ELSE [list |-> cp_free_list[cur], cnt |-> cnt]

PrepareFreeList(blkalloc_checkpoint, cur, cnt) ==
    IF blkalloc_checkpoint \/ cur = NoCp
    THEN [list |-> (cnt + 1) % MAX_CP_CNT, cnt |-> cnt + 1]
    ELSE [list |-> cp_free_list[cur], cnt |-> cnt]

PrepareCp(blkalloc_checkpoint) ==
    LET cur == CurCp
        new == cur + 1
        cp_id == CpSlot(new)
        fl == PrepareFreeList(blkalloc_checkpoint, cur, m_free_list_cnt)
        fresh == blkalloc_checkpoint \/ cur = NoCp
    IN  /\ new \in Cps
        \* caller: one checkpoint accumulates while at most one flushes
        /\ cur # NoCp => cp_phase[cur] = "open"
        /\ \A d \in Cps : d < cur => CpEnded(d)
        /\ cp_phase' = [cp_phase EXCEPT ![new] = "open"]
        /\ cp_blkalloc' = IF cur # NoCp THEN [cp_blkalloc EXCEPT ![cur] = blkalloc_checkpoint]
                          ELSE cp_blkalloc
        /\ cp_free_list' = [cp_free_list EXCEPT ![new] = fl.list]
        /\ m_free_list_cnt' = fl.cnt
        /\ wb_assert_ok' = (wb_assert_ok
                            /\ m_dirty_buf_cnt[cp_id] = 0
                            /\ Len(m_req_list[cp_id]) = 0
                            /\ (fresh => Len(m_free_list[fl.list]) = 0))
        /\ UNCHANGED <<reqs, node_req, node_bcp, m_req_list, m_dirty_buf_cnt, m_free_list,
                       flush_it, succ_hist, cp_comp_log, ba_freed,
                       n_writes, n_free>>

\* ---- write --------------------------------------------------------------
\* if (wbd_req) { lock; wbd_req->req_q.push_back(wb_req); wb_req->dependent_cnt++ }
LinkDependent_NoCount(rs, wbd_req, wb_req) ==
    IF wbd_req # NoReq
    THEN [rs EXCEPT ![wbd_req].req_q = Append(@, wb_req)]
    ELSE rs

LinkDependent(rs, wbd_req, wb_req) ==
    IF wbd_req # NoReq
    THEN [[rs EXCEPT ![wbd_req].req_q = Append(@, wb_req)]
              EXCEPT ![wb_req].dependent_cnt = @ + 1]
    ELSE rs

\* if (!bn->req[cp_id])
no_req_Always(bn, cp_id) == TRUE

no_req(bn, cp_id) == node_req[bn][cp_id] = NoReq

Write(bn, dependent_bn, c) ==
    LET cp_id == CpSlot(c)
        wbd_req == IF dependent_bn # NoNode THEN node_req[dependent_bn][cp_id] ELSE NoReq
        create == no_req(bn, cp_id)
        wb_req == IF create THEN Len(reqs) + 1 ELSE node_req[bn][cp_id]
        reqs1 == IF create THEN Append(reqs, NewWbReq(bn, c)) ELSE reqs
    IN  \* caller: the btree writes into a checkpoint until cp_start is called on it;
        \* a node depends on a node written before it in this checkpoint (line 200)
        \* and dependencies follow the parent/child order of the tree
        /\ cp_phase[c] = "open"
        /\ c = CurCp
        \* a write that neither creates a request nor links one only copies memory
        /\ create \/ dependent_bn # NoNode
        /\ dependent_bn # NoNode => (dependent_bn < bn /\ node_req[dependent_bn][cp_id] # NoReq)
        /\ n_writes' = n_writes + 1
        /\ wb_assert_ok' = (wb_assert_ok /\ reqs1[wb_req].state = WB_REQ_WAITING)
        /\ reqs' = LinkDependent(reqs1, wbd_req, wb_req)
        /\ node_req' = IF create THEN [node_req EXCEPT ![bn][cp_id] = wb_req] ELSE node_req
        /\ node_bcp' = IF create THEN [node_bcp EXCEPT ![bn] = c] ELSE node_bcp
        /\ m_req_list' = IF create THEN [m_req_list EXCEPT ![cp_id] = Append(@, wb_req)]
                         ELSE m_req_list
        /\ m_dirty_buf_cnt' = IF create THEN [m_dirty_buf_cnt EXCEPT ![cp_id] = @ + 1]
                              ELSE m_dirty_buf_cnt
        /\ succ_hist' = IF wbd_req # NoReq THEN succ_hist \cup {<<wbd_req, wb_req>>}
                        ELSE succ_hist
        /\ UNCHANGED <<m_free_list, m_free_list_cnt, cp_free_list, cp_phase, cp_blkalloc,
                       flush_it, cp_comp_log, ba_freed, n_free>>

\* ---- free_blk -----------------------------------------------------------
\* free_blk(node_id, bcp->free_blkid_list, size) called under checkpoint c
FreeBlk(c) ==
    /\ cp_phase[c] = "open"
    /\ c = CurCp
    /\ cp_free_list[c] \in Slots
    /\ n_free' = n_free + 1
    /\ m_free_list' = [m_free_list EXCEPT ![cp_free_list[c]] =
                            Append(@, [bid |-> n_free + 1, cp |-> c])]
    /\ UNCHANGED <<reqs, node_req, node_bcp, m_req_list, m_dirty_buf_cnt, m_free_list_cnt,
                   cp_free_list, cp_phase, cp_blkalloc, flush_it,
                   succ_hist, cp_comp_log, ba_freed, wb_assert_ok, n_writes>>

\* Snapshot taken when m_cp_comp_cb(bcp) is invoked
CpCompSnapshot(c, cnts, lists, rs, nreq) ==
    [cp |-> c,
     dirty |-> cnts[CpSlot(c)],
     list_len |-> Len(lists[CpSlot(c)]),
     all_compl |-> \A r \in 1..Len(rs) : rs[r].cp = c => rs[r].state = WB_REQ_COMPL,
     node_clear |-> \A n \in Nodes : nreq[n][CpSlot(c)] = NoReq,
     n_reqs |-> Cardinality({r \in 1..Len(rs) : rs[r].cp = c})]

\* ---- cp_start / flush_buffers -------------------------------------------
\* m_dirty_buf_cnt[cp_id].increment(1): the flush loop counts as one dirty buffer
FlushPseudoReq_None(cnt) == cnt

FlushPseudoReq(cnt) == cnt + 1

\* cp_start(bcp) hands flush_buffers(bcp) to a flusher thread, which begins with
\* the increment and list->begin(it).  The caller starts a checkpoint after it
\* prepared the successor that takes the new writes.
CpStart(c) ==
    /\ cp_phase[c] = "open"
    /\ c < MaxCp => cp_phase[c + 1] = "open"
    /\ cp_phase' = [cp_phase EXCEPT ![c] = "flushing"]
    /\ m_dirty_buf_cnt' = [m_dirty_buf_cnt EXCEPT ![CpSlot(c)] = FlushPseudoReq(@)]
    /\ flush_it' = [flush_it EXCEPT ![c] = 1]
    /\ UNCHANGED <<reqs, node_req, node_bcp, m_req_list, m_free_list, m_free_list_cnt,
                   cp_free_list, cp_blkalloc, succ_hist, cp_comp_log,
                   ba_freed, wb_assert_ok, n_writes, n_free>>

\* sisl::atomic_counter::decrement_testz(1) on dependent_cnt
decrement_testz(cnt) == cnt - 1 = 0

\* One iteration of the while (wb_req_ptr_ref) loop
FlushStep(c) ==
    LET list == m_req_list[CpSlot(c)]
        wb_req == list[flush_it[c]]
        testz == decrement_testz(reqs[wb_req].dependent_cnt)
    IN  /\ cp_phase[c] = "flushing"
        /\ flush_it[c] <= Len(list)
        /\ reqs' = [reqs EXCEPT ![wb_req].dependent_cnt = @ - 1,
                                ![wb_req].state = IF testz THEN WB_REQ_SENT ELSE @,
                                ![wb_req].n_blkstore_write = IF testz THEN @ + 1 ELSE @]
        /\ flush_it' = [flush_it EXCEPT ![c] = @ + 1]
        /\ UNCHANGED <<node_req, node_bcp, m_req_list, m_dirty_buf_cnt, m_free_list,
                       m_free_list_cnt, cp_free_list, cp_phase, cp_blkalloc, succ_hist,
                       cp_comp_log, ba_freed, wb_assert_ok, n_writes, n_free>>

\* list->clear()
FlushClearList_Keep(list) == list

FlushClearList(list) == << >>

\* list->clear(); if (m_dirty_buf_cnt[cp_id].decrement_testz(1)) m_cp_comp_cb(bcp)
FlushEnd(c) ==
    LET cp_id == CpSlot(c)
        lists == [m_req_list EXCEPT ![cp_id] = FlushClearList(@)]
        cnts == [m_dirty_buf_cnt EXCEPT ![cp_id] = @ - 1]
    IN  /\ cp_phase[c] = "flushing"
        /\ flush_it[c] > Len(m_req_list[cp_id])
        /\ m_req_list' = lists
        /\ m_dirty_buf_cnt' = cnts
        /\ cp_phase' = [cp_phase EXCEPT ![c] = "flushed"]
        /\ cp_comp_log' = IF cnts[cp_id] = 0
                          THEN Append(cp_comp_log,
                                      CpCompSnapshot(c, cnts, lists, reqs, node_req))
                          ELSE cp_comp_log
        /\ UNCHANGED <<reqs, node_req, node_bcp, m_free_list, m_free_list_cnt, cp_free_list,
                       cp_blkalloc, flush_it, succ_hist, ba_freed,
                       wb_assert_ok, n_writes, n_free>>

\* ---- writeBack_completion_internal --------------------------------------
\* while (!wb_req->req_q.empty()): pop the back, decrement_testz, maybe submit
RECURSIVE DrainReqQ(_, _)
DrainReqQ(rs, r) ==
    IF Len(rs[r].req_q) = 0 THEN rs
    ELSE LET q == rs[r].req_q
             depend_req == q[Len(q)]
             testz == decrement_testz(rs[depend_req].dependent_cnt)
             rs1 == [rs EXCEPT ![r].req_q = SubSeq(q, 1, Len(q) - 1)]
         IN  DrainReqQ([rs1 EXCEPT ![depend_req].dependent_cnt = @ - 1,
                                   ![depend_req].state = IF testz THEN WB_REQ_SENT ELSE @,
                                   ![depend_req].n_blkstore_write = IF testz THEN @ + 1 ELSE @],
                       r)

\* The block store calls back for a request it was given: wb_req->state =
\* WB_REQ_COMPL, then the successor queue is drained under wb_req->mtx
ComplBegin(r) ==
    /\ r \in ReqIds
    /\ reqs[r].state = WB_REQ_SENT
    /\ reqs[r].cpl = "none"
    /\ reqs' = DrainReqQ([reqs EXCEPT ![r].state = WB_REQ_COMPL, ![r].cpl = "drained"], r)
    /\ UNCHANGED <<node_req, node_bcp, m_req_list, m_dirty_buf_cnt, m_free_list,
                   m_free_list_cnt, cp_free_list, cp_phase, cp_blkalloc, flush_it,
                   succ_hist, cp_comp_log, ba_freed, wb_assert_ok, n_writes, n_free>>

\* wb_req->bn->req[cp_id] = nullptr
ComplClearNode_Keep(nreq, bn, cp_id) == nreq

ComplClearNode(nreq, bn, cp_id) == [nreq EXCEPT ![bn][cp_id] = NoReq]

\* wb_req->bn->req[cp_id] = nullptr;
\* if (m_dirty_buf_cnt[cp_id].decrement_testz(1)) m_cp_comp_cb(wb_req->bcp)
ComplEnd(r) ==
    /\ r \in ReqIds
    /\ reqs[r].cpl = "drained"
    /\ LET c == reqs[r].cp
           cp_id == CpSlot(c)
           cnts == [m_dirty_buf_cnt EXCEPT ![cp_id] = @ - 1]
           rs == [reqs EXCEPT ![r].cpl = "done"]
           nreq == ComplClearNode(node_req, reqs[r].bn, cp_id)
       IN  /\ reqs' = rs
           /\ node_req' = nreq
           /\ m_dirty_buf_cnt' = cnts
           /\ cp_comp_log' = IF cnts[cp_id] = 0
                             THEN Append(cp_comp_log,
                                         CpCompSnapshot(c, cnts, m_req_list, rs, nreq))
                             ELSE cp_comp_log
    /\ UNCHANGED <<node_bcp, m_req_list, m_free_list, m_free_list_cnt,
                   cp_free_list, cp_phase, cp_blkalloc, flush_it,
                   succ_hist, ba_freed, wb_assert_ok, n_writes, n_free>>

\* ---- flush_free_blks ----------------------------------------------------
\* ba_cp->free_blks(list): the allocator checkpoint takes the blocks of the list
BaFreeBlks(c, list, freed) ==
    freed \cup {[bid |-> list[i].bid, cp |-> list[i].cp, with |-> c,
                 done |-> CpDurable(list[i].cp)] : i \in 1..Len(list)}

\* flush_free_blks(bcp, ba_cp), called once the checkpoint is durable and a block
\* allocator checkpoint is taken with it
FlushFreeBlks(c) ==
    /\ cp_phase[c] = "flushed"
    /\ CpDurable(c)
    /\ cp_phase' = [cp_phase EXCEPT ![c] = "ended"]
    /\ IF cp_blkalloc[c]
       THEN /\ ba_freed' = BaFreeBlks(c, m_free_list[cp_free_list[c]], ba_freed)
            /\ m_free_list' = [m_free_list EXCEPT ![cp_free_list[c]] = << >>]
       ELSE UNCHANGED <<ba_freed, m_free_list>>
    /\ UNCHANGED <<reqs, node_req, node_bcp, m_req_list, m_dirty_buf_cnt, m_free_list_cnt,
                   cp_free_list, cp_blkalloc, flush_it, succ_hist,
                   cp_comp_log, wb_assert_ok, n_writes, n_free>>

(***************************************************************************)
(* Part II : LogDev                                                        *)
(***************************************************************************)

round_down(x, a) == (x \div a) * a
round_up(x, a) == ((x + a - 1) \div a) * a

\* the mistaken boundary: a size equal to optimal_inline_data_size counts as small
is_size_inlineable_Le(sz) ==
    sz <= OptimalInlineDataSize \/ sz % dma_address_boundary # 0

\* log_record::is_size_inlineable with flush_size_multiple = dma boundary
is_size_inlineable(sz) ==
    sz < OptimalInlineDataSize \/ sz % dma_address_boundary # 0

\* log_record::is_inlineable for a payload of sz bytes at address addr;
\* aligned is data.is_aligned()
is_inlineable(sz, addr, aligned) ==
    is_size_inlineable(sz) \/ addr % dma_address_boundary # 0 \/ ~aligned

\* flush_data_threshold_size()
flush_data_threshold_size == FlushThresholdSize - LogGroupHeaderSize

\* crc32_ieee over the record slots and the data that follow the header,
\* modelled as a hash of what those bytes hold (never INVALID_CRC32_VALUE)
RECURSIVE CrcFold(_, _, _)
CrcFold(slots, i, h) ==
    IF i > Len(slots) THEN h
    ELSE CrcFold(slots, i + 1,
                 (h * 31 + slots[i].store_seq_num * 7 + slots[i].store_id * 3
                    + slots[i].size + slots[i].offset + slots[i].data) % CrcModulus)

compute_crc(slots) == 1 + CrcFold(slots, 1, 0)

\* ---- LogGroup ------------------------------------------------------------
\* LogGroup::reset(max_records): zeroed header, cursors behind the slot array
make_log_group(max_records) ==
    [m_nrecords |-> 0, m_max_records |-> max_records, start_log_idx |-> 0,
     slots |-> << >>,
     m_inline_data_pos |-> LogGroupHeaderSize + max_records * SerializedLogRecordSize,
     m_oob_data_pos |-> 0, m_actual_data_size |-> 0]

\* LogGroup::add_record, for a group that can take the record
add_record(lg, record, log_idx) ==
    LET inl == is_size_inlineable(record.size)
        slot == [size |-> record.size,
                 offset |-> IF inl THEN lg.m_inline_data_pos ELSE lg.m_oob_data_pos,
                 is_inlined |-> inl,
                 store_seq_num |-> record.seq_num,
                 store_id |-> record.store_id,
                 data |-> record.data]
    IN  [lg EXCEPT !.m_nrecords = @ + 1,
                   !.start_log_idx = IF lg.m_nrecords = 0 THEN log_idx ELSE @,
                   !.slots = Append(@, slot),
                   !.m_inline_data_pos = IF inl THEN @ + record.size ELSE @,
                   !.m_oob_data_pos = IF inl THEN @ ELSE @ + record.size,
                   !.m_actual_data_size = @ + record.size]

\* m_log_records->foreach_active(idx, ...): walks the created slots from idx
\* on while add_record accepts (it refuses when the group is full)
RECURSIVE foreach_active_add(_, _, _)
foreach_active_add(lg, records, idx) ==
    IF idx \in DOMAIN records /\ lg.m_nrecords < lg.m_max_records
    THEN foreach_active_add(add_record(lg, records[idx], idx), records, idx + 1)
    ELSE lg

\* int64_t flushing_upto_idx = 0u
FlushingUptoInit == 0

\* lg->finish(): the previous crc stamped into the header is m_last_crc
FinishPrevCrc(last_crc) == last_crc

\* LogDev::prepare_flush: the finished group, placed at dev_offset
prepare_flush(estimated_records, records, last_flush_idx, last_crc, dev_offset, gno) ==
    LET lg == foreach_active_add(make_log_group(estimated_records), records, last_flush_idx + 1)
        oob == round_up(lg.m_inline_data_pos, dma_address_boundary)
    IN  [gno |-> gno,
         m_flush_log_idx_from |-> last_flush_idx + 1,
         m_flush_log_idx_upto |-> IF lg.m_nrecords > 0
                                  THEN lg.start_log_idx + lg.m_nrecords - 1
                                  ELSE FlushingUptoInit,
         m_log_dev_offset |-> dev_offset,
         magic |-> LOG_GROUP_HDR_MAGIC,
         start_log_idx |-> lg.start_log_idx,
         n_log_records |-> lg.m_nrecords,
         slots |-> lg.slots,
         oob_data_offset |-> oob,
         group_size |-> oob + round_up(lg.m_oob_data_pos, dma_address_boundary),
         prev_grp_crc |-> FinishPrevCrc(last_crc),
         cur_grp_crc |-> compute_crc(lg.slots),
         m_actual_data_size |-> lg.m_actual_data_size]

\* m_is_flushing.compare_exchange_strong(expected = false, true)
CasFlushing_Always(is_flushing) == TRUE

CasFlushing(is_flushing) == ~is_flushing

\* LogDev::flush_if_needed as a function of the fields it reads; elapsed says
\* whether more than max_time_between_flush_us passed since the last flush.
\* Yields the new counter and flag and the group handed to do_flush, if any.
flush_if_needed(new_record_size, new_idx, elapsed, pending, is_flushing, log_idx, records, last_flush_idx, last_crc, dev_offset, gno) ==
    LET pending_sz == pending + new_record_size
        needed == \/ pending_sz >= flush_data_threshold_size
                  \/ (pending_sz # 0 /\ elapsed)
        won == needed /\ CasFlushing(is_flushing)
        idx == IF new_idx = -1 THEN log_idx ELSE new_idx
        lg == prepare_flush(idx - last_flush_idx + 4, records, last_flush_idx, last_crc,
                            dev_offset, gno)
    IN  IF won
        THEN [pending |-> pending_sz - lg.m_actual_data_size, is_flushing |-> TRUE,
              groups |-> {lg}, tail |-> dev_offset + lg.group_size, n |-> 1]
        ELSE [pending |-> pending_sz, is_flushing |-> is_flushing,
              groups |-> {}, tail |-> dev_offset, n |-> 0]

\* the empty StreamTracker
NoRecords == [i \in {} |-> 0]

\* ---- append_async -------------------------------------------------------
\* the appends go to two log stores in turn
StoreOf(n) == 1 + (n % 2)

\* auto idx = m_log_idx.fetch_add(1)
AppendFetchIdx(t, sizes) ==
    /\ ld_state = "up"
    /\ t_pc[t] = "idle"
    \* the threads are alike: the second one is taken when the first is busy
    /\ t = "t2" => t_pc["t1"] # "idle"
    /\ \E sz \in sizes :
         t_rec' = [t_rec EXCEPT ![t] = [store_id |-> StoreOf(n_appends), seq_num |-> n_appends + 1,
                                        size |-> sz, data |-> n_appends + 1]]
    /\ n_appends' = n_appends + 1
    /\ t_idx' = [t_idx EXCEPT ![t] = m_log_idx]
    /\ m_log_idx' = m_log_idx + 1
    /\ alloc_hist' = Append(alloc_hist, m_log_idx)
    /\ t_pc' = [t_pc EXCEPT ![t] = "fetched"]
    /\ UNCHANGED <<ld_state, m_log_records, m_pending_flush_size, m_is_flushing,
                   m_last_flush_idx, m_last_crc, m_block_flush_q, inflight, journal,
                   tail_offset, lock_held, comp_log, found_log, dev_at_load,
                   last_read, cb_run, n_stops, n_locks, n_reads, n_groups>>

\* m_log_records->create(idx, store_id, seq_num, data, size, cb_context)
AppendCreate(t) ==
    /\ ld_state = "up"
    /\ t_pc[t] = "fetched"
    /\ m_log_records' = [i \in DOMAIN m_log_records \cup {t_idx[t]} |->
                            IF i = t_idx[t] THEN t_rec[t] ELSE m_log_records[i]]
    /\ t_pc' = [t_pc EXCEPT ![t] = "created"]
    /\ UNCHANGED <<ld_state, m_log_idx, m_pending_flush_size, m_is_flushing,
                   m_last_flush_idx, m_last_crc, m_block_flush_q, inflight, journal,
                   tail_offset, t_idx, t_rec, lock_held, alloc_hist, comp_log,
                   found_log, dev_at_load, last_read, cb_run,
                   n_appends, n_stops, n_locks, n_reads, n_groups>>

\* flush_if_needed(size, idx); return idx
AppendFlushIfNeeded(t) ==
    /\ ld_state = "up"
    /\ t_pc[t] = "created"
    /\ \E elapsed \in BOOLEAN :
         LET r == flush_if_needed(t_rec[t].size, t_idx[t], elapsed, m_pending_flush_size,
                                  m_is_flushing, m_log_idx, m_log_records,
                                  m_last_flush_idx, m_last_crc, tail_offset, n_groups + 1)
         IN  /\ m_pending_flush_size' = r.pending
             /\ m_is_flushing' = r.is_flushing
             /\ inflight' = inflight \cup r.groups
             /\ tail_offset' = r.tail
             /\ n_groups + r.n <= MaxGroups
        /\ n_groups' = n_groups + r.n
    /\ t_pc' = [t_pc EXCEPT ![t] = "idle"]
    /\ UNCHANGED <<ld_state, m_log_idx, m_log_records, m_last_flush_idx, m_last_crc,
                   m_block_flush_q, journal, t_idx, t_rec, lock_held, alloc_hist,
                   comp_log, found_log, dev_at_load, last_read, cb_run,
                   n_appends, n_stops, n_locks, n_reads>>

\* the recurring timer of start(): flush_if_needed() with no record
TimerFlush ==
    /\ ld_state = "up"
    /\ \E elapsed \in BOOLEAN :
         LET r == flush_if_needed(0, -1, elapsed, m_pending_flush_size,
                                  m_is_flushing, m_log_idx, m_log_records,
                                  m_last_flush_idx, m_last_crc, tail_offset, n_groups + 1)
         IN  /\ r.n = 1
             /\ m_pending_flush_size' = r.pending
             /\ m_is_flushing' = r.is_flushing
             /\ inflight' = inflight \cup r.groups
             /\ tail_offset' = r.tail
             /\ n_groups + r.n <= MaxGroups
        /\ n_groups' = n_groups + r.n
    /\ UNCHANGED <<ld_state, m_log_idx, m_log_records, m_last_flush_idx, m_last_crc,
                   m_block_flush_q, journal, t_pc, t_idx, t_rec, lock_held, alloc_hist,
                   comp_log, found_log, dev_at_load, last_read, cb_run,
                   n_appends, n_stops, n_locks, n_reads>>

\* ---- on_flush_completion / unlock_flush ----------------------------------
\* pwritev at m_log_dev_offset: the group replaces what the device held from there
DevWrite(dev, lg) ==
    Append(SelectSeq(dev, LAMBDA g : g.m_log_dev_offset < lg.m_log_dev_offset), lg)

\* the m_append_comp_cb calls of the loop over [from..upto], which ends where
\* m_log_records->at(idx) finds no record
RECURSIVE CompletionCbs(_, _, _)
CompletionCbs(lg, records, idx) ==
    IF idx > lg.m_flush_log_idx_upto \/ idx \notin DOMAIN records THEN << >>
    ELSE <<[idx |-> idx, dev_offset |-> lg.m_log_dev_offset,
            flush_idx |-> lg.m_flush_log_idx_upto,
            nremaining |-> lg.m_flush_log_idx_upto - idx,
            store_id |-> records[idx].store_id,
            data |-> records[idx].data,
            gno |-> lg.gno]>> \o CompletionCbs(lg, records, idx + 1)

\* at(idx) throws for an index that was not created
AtThrows(lg, records) ==
    \E idx \in lg.m_flush_log_idx_from .. lg.m_flush_log_idx_upto : idx \notin DOMAIN records

\* unlock_flush(): run and drop the queued callbacks, clear the flag, then
\* flush_if_needed(); others are the groups still with the device
unlock_flush(elapsed, last_flush_idx, last_crc, others) ==
    LET r == flush_if_needed(0, -1, elapsed, m_pending_flush_size, FALSE, m_log_idx,
                             m_log_records, last_flush_idx, last_crc, tail_offset,
                             n_groups + 1)
    IN  /\ cb_run' = cb_run \cup {m_block_flush_q[i] : i \in 1..Len(m_block_flush_q)}
        /\ m_block_flush_q' = << >>
        /\ m_pending_flush_size' = r.pending
        /\ m_is_flushing' = r.is_flushing
        /\ tail_offset' = r.tail
        /\ n_groups + r.n <= MaxGroups
        /\ n_groups' = n_groups + r.n
        /\ inflight' = others \cup r.groups

\* on_flush_completion(lg); dev is the device after the write request.
\* complete(from, upto) with upto < from is outside the tracker's contract:
\* it either changes nothing or brings the process down.
on_flush_completion(lg, dev) ==
    /\ ld_state = "up"
    /\ lg \in inflight
    /\ journal' = dev
    /\ comp_log' = comp_log \o CompletionCbs(lg, m_log_records, lg.m_flush_log_idx_from)
    /\ \E abort \in BOOLEAN, elapsed \in BOOLEAN :
         /\ abort => lg.m_flush_log_idx_upto < lg.m_flush_log_idx_from
         /\ IF abort \/ AtThrows(lg, m_log_records)
            THEN /\ ld_state' = "aborted"
                 /\ m_last_flush_idx' = IF abort THEN m_last_flush_idx
                                         ELSE lg.m_flush_log_idx_upto
                 /\ inflight' = inflight \ {lg}
                 /\ UNCHANGED <<m_last_crc, m_block_flush_q, m_pending_flush_size,
                                m_is_flushing, tail_offset, n_groups, cb_run>>
            ELSE /\ m_last_flush_idx' = lg.m_flush_log_idx_upto
                 /\ m_last_crc' = lg.cur_grp_crc
                 /\ UNCHANGED ld_state
                 /\ unlock_flush(elapsed, lg.m_flush_log_idx_upto, lg.cur_grp_crc,
                                 inflight \ {lg})
    /\ UNCHANGED <<m_log_idx, m_log_records, t_pc, t_idx, t_rec, lock_held, alloc_hist,
                   found_log, dev_at_load, last_read,
                   n_appends, n_stops, n_locks, n_reads>>

\* process_logdev_completions for a write request that succeeded
OnFlushCompletion(lg) == on_flush_completion(lg, DevWrite(journal, lg))

\* process_logdev_completions for a write request that the device failed:
\* nothing of the group is on the device; on_flush_completion runs all the same
OnFlushFailure(lg) ==
    /\ on_flush_completion(lg, journal)
    /\ flush_failed' = flush_failed \cup
           {[gno |-> lg.gno, from |-> lg.m_flush_log_idx_from, upto |-> lg.m_flush_log_idx_upto,
             last_flush_idx |-> m_last_flush_idx']}

\* ---- try_lock_flush / unlock_flush by its caller ---------------------------
TryLockFlush ==
    /\ ld_state = "up"
    /\ ~lock_held
    /\ n_locks' = n_locks + 1
    /\ IF CasFlushing(m_is_flushing)
       THEN /\ m_is_flushing' = TRUE
            /\ cb_run' = cb_run \cup {n_locks + 1}
            /\ lock_held' = TRUE
            /\ UNCHANGED m_block_flush_q
       ELSE /\ m_block_flush_q' = Append(m_block_flush_q, n_locks + 1)
            /\ UNCHANGED <<m_is_flushing, cb_run, lock_held>>
    /\ UNCHANGED <<ld_state, m_log_idx, m_log_records, m_pending_flush_size,
                   m_last_flush_idx, m_last_crc, inflight, journal,
                   tail_offset, t_pc, t_idx, t_rec, alloc_hist, comp_log,
                   found_log, dev_at_load, last_read,
                   n_appends, n_stops, n_reads, n_groups>>

\* the caller that try_lock_flush let in releases the flush lock
UnlockFlush ==
    /\ ld_state = "up"
    /\ lock_held
    /\ lock_held' = FALSE
    /\ \E elapsed \in BOOLEAN : unlock_flush(elapsed, m_last_flush_idx, m_last_crc, inflight)
    /\ UNCHANGED <<ld_state, m_log_idx, m_log_records, m_last_flush_idx, m_last_crc,
                   journal, t_pc, t_idx, t_rec, alloc_hist, comp_log,
                   found_log, dev_at_load, last_read,
                   n_appends, n_stops, n_locks, n_reads>>

\* ---- stop / start --------------------------------------------------------
\* stop(): called with no append under way, nothing pending and no flush going
\* on (its two HS_ASSERTs)
Stop ==
    /\ ld_state = "up"
    /\ \A t \in Threads : t_pc[t] = "idle"
    /\ ~lock_held
    /\ m_pending_flush_size = 0
    /\ ~m_is_flushing
    /\ n_stops' = n_stops + 1
    /\ ld_state' = "down"
    /\ m_log_records' = NoRecords
    /\ m_log_idx' = 0
    /\ m_pending_flush_size' = 0
    /\ m_is_flushing' = FALSE
    /\ m_last_flush_idx' = -1
    /\ m_last_crc' = INVALID_CRC32_VALUE
    /\ m_block_flush_q' = << >>
    /\ UNCHANGED <<inflight, journal, tail_offset, t_pc, t_idx, t_rec, lock_held,
                   alloc_hist, comp_log, found_log, dev_at_load, last_read, cb_run,
                   n_appends, n_locks, n_reads, n_groups>>

\* stop() called while an append is under way, a flush is going on or
\* m_pending_flush_size is not 0. The two HS_ASSERT(LOGMSG, ...) bring the
\* process down in a debug build and only log in a release build; stop()
\* then goes on to reset the state. It waits for nothing.
StopBusy ==
    /\ ld_state = "up"
    /\ ~(/\ \A t \in Threads : t_pc[t] = "idle"
         /\ m_pending_flush_size = 0
         /\ ~m_is_flushing)
    /\ n_stops' = n_stops + 1
    /\ \E release \in BOOLEAN :
          /\ (m_pending_flush_size = 0 /\ ~m_is_flushing) => release
          /\ stop_hist' = stop_hist \cup
                 {[pending |-> m_pending_flush_size, is_flushing |-> m_is_flushing,
                   inflight |-> Cardinality(inflight),
                   appending |-> \E t \in Threads : t_pc[t] # "idle",
                   reset |-> release]}
          /\ IF release
             THEN /\ ld_state' = "down"
                  /\ m_log_records' = NoRecords
                  /\ m_log_idx' = 0
                  /\ m_pending_flush_size' = 0
                  /\ m_is_flushing' = FALSE
                  /\ m_last_flush_idx' = -1
                  /\ m_last_crc' = INVALID_CRC32_VALUE
                  /\ m_block_flush_q' = << >>
             ELSE /\ ld_state' = "aborted"
                  /\ UNCHANGED <<m_log_records, m_log_idx, m_pending_flush_size,
                                 m_is_flushing, m_last_flush_idx, m_last_crc,
                                 m_block_flush_q>>
    /\ UNCHANGED <<inflight, journal, tail_offset, t_pc, t_idx, t_rec, lock_held,
                   alloc_hist, comp_log, found_log, dev_at_load, last_read, cb_run,
                   n_appends, n_locks, n_reads, n_groups, alloc_after_stop>>

\* append_async called after stop(): m_log_idx.fetch_add(1) hands out an
\* index, then m_log_records->create goes through the null m_log_records
AppendAfterStop(t) ==
    /\ ld_state = "down"
    /\ t_pc[t] = "idle"
    /\ n_appends' = n_appends + 1
    /\ m_log_idx' = m_log_idx + 1
    /\ alloc_hist' = Append(alloc_hist, m_log_idx)
    /\ alloc_after_stop' = alloc_after_stop \cup {m_log_idx}
    /\ ld_state' = "aborted"
    /\ UNCHANGED <<m_log_records, m_pending_flush_size, m_is_flushing,
                   m_last_flush_idx, m_last_crc, m_block_flush_q, inflight, journal,
                   tail_offset, t_pc, t_idx, t_rec, lock_held, comp_log, found_log,
                   dev_at_load, last_read, cb_run, n_stops, n_locks, n_reads, n_groups,
                   stop_hist>>

\* what a write that the end of the process cut short leaves on the device:
\* the header without the last payload behind it, or no header
TornGroup(lg, kind) ==
    IF kind = "payload"
    THEN [lg EXCEPT !.slots = [i \in 1..Len(@) |->
                                   IF i = Len(@) THEN [@[i] EXCEPT !.data = 0] ELSE @[i]]]
    ELSE [lg EXCEPT !.magic = 0]

\* the process ends while the device writes the group lg; the next process
\* has a LogDev as constructed and calls start(format = false)
TornWrite(lg, kind) ==
    /\ ld_state = "up"
    /\ lg \in inflight
    /\ kind = "payload" => lg.n_log_records > 0
    /\ journal' = DevWrite(journal, TornGroup(lg, kind))
    /\ inflight' = {}
    /\ n_stops' = n_stops + 1
    /\ ld_state' = "down"
    /\ m_log_records' = NoRecords
    /\ m_log_idx' = 0
    /\ m_pending_flush_size' = 0
    /\ m_is_flushing' = FALSE
    /\ m_last_flush_idx' = -1
    /\ m_last_crc' = INVALID_CRC32_VALUE
    /\ m_block_flush_q' = << >>
    /\ t_pc' = [t \in Threads |-> "idle"]
    /\ lock_held' = FALSE
    /\ UNCHANGED <<tail_offset, t_idx, t_rec, alloc_hist, comp_log, found_log, dev_at_load,
                   last_read, cb_run, n_appends, n_locks, n_reads, n_groups>>

\* start(format = true) on the new device
StartFormat ==
    /\ ld_state = "new"
    /\ ld_state' = "up"
    /\ m_log_records' = NoRecords
    /\ UNCHANGED <<m_log_idx, m_pending_flush_size, m_is_flushing, m_last_flush_idx,
                   m_last_crc, m_block_flush_q, inflight, journal, tail_offset,
                   t_pc, t_idx, t_rec, lock_held, alloc_hist, comp_log, found_log,
                   dev_at_load, last_read, cb_run,
                   n_appends, n_stops, n_locks, n_reads, n_groups>>

\* offset of the payload of the n-th record within its group
DataOffset(header, n) ==
    header.slots[n].offset + (IF header.slots[n].is_inlined THEN 0 ELSE header.oob_data_offset)

\* where add_record put the payload of the n-th record
PayloadPos(header, n) ==
    IF header.slots[n].is_inlined THEN header.slots[n].offset
    ELSE header.oob_data_offset + header.slots[n].offset

\* the size bytes at offset off of the group: the payload that lies there
GroupBytes(header, off, size) ==
    IF \E n \in 1..Len(header.slots) :
            PayloadPos(header, n) = off /\ header.slots[n].size = size
    THEN [ok |-> TRUE,
          data |-> header.slots[CHOOSE n \in 1..Len(header.slots) :
                        PayloadPos(header, n) = off /\ header.slots[n].size = size].data]
    ELSE [ok |-> FALSE, data |-> 0]

\* log_stream_reader::next_group's test of the group it read: the magic, the
\* chain of prev crcs and the crc over the bytes behind the header
group_valid_NoCrc(g, prev_crc) ==
    /\ g.magic = LOG_GROUP_HDR_MAGIC
    /\ (prev_crc = 0 \/ g.prev_grp_crc = prev_crc)

group_valid(g, prev_crc) ==
    /\ g.magic = LOG_GROUP_HDR_MAGIC
    /\ (prev_crc = 0 \/ g.prev_grp_crc = prev_crc)
    /\ g.cur_grp_crc = compute_crc(g.slots)

\* log_stream_reader::next_group: how many groups from the start of the device
\* the reader yields; it ends at the first group that fails the test
RECURSIVE next_group_upto(_, _, _)
next_group_upto(dev, k, prev_crc) ==
    IF k > Len(dev) THEN k - 1
    ELSE IF ~group_valid(dev[k], prev_crc) THEN k - 1
    ELSE next_group_upto(dev, k + 1, dev[k].cur_grp_crc)

\* the m_logfound_cb calls of do_load for one group
RECURSIVE LogFoundCbs(_, _)
LogFoundCbs(header, i) ==
    IF i >= header.n_log_records THEN << >>
    ELSE <<[idx |-> header.start_log_idx + i,
            dev_offset |-> header.m_log_dev_offset,
            store_id |-> header.slots[i + 1].store_id,
            seq_num |-> header.slots[i + 1].store_seq_num,
            payload |-> GroupBytes(header, DataOffset(header, i + 1),
                                   header.slots[i + 1].size)]>>
         \o LogFoundCbs(header, i + 1)

RECURSIVE do_load_cbs(_, _, _)
do_load_cbs(dev, k, upto) ==
    IF k > upto THEN << >>
    ELSE LogFoundCbs(dev[k], 0) \o do_load_cbs(dev, k + 1, upto)

\* what the device holds: every record of every group, as appended
RECURSIVE DevRecords(_, _)
DevRecords(dev, k) ==
    IF k > Len(dev) THEN << >>
    ELSE [i \in 1..dev[k].n_log_records |->
              [idx |-> dev[k].start_log_idx + i - 1,
               dev_offset |-> dev[k].m_log_dev_offset,
               store_id |-> dev[k].slots[i].store_id,
               seq_num |-> dev[k].slots[i].store_seq_num,
               payload |-> [ok |-> TRUE, data |-> dev[k].slots[i].data]]]
         \o DevRecords(dev, k + 1)

\* start(format = false): do_load, reinit of the tracker, m_last_flush_idx
StartLoad ==
    LET upto == next_group_upto(journal, 1, 0)
        log_idx == IF upto = 0 THEN m_log_idx
                   ELSE journal[upto].start_log_idx + journal[upto].n_log_records
        \* assert_next_pages: a header in the pages behind the end of the stream
        \* that starts at or after m_log_idx fails the release assert
        future == \E k \in (upto + 2)..Len(journal) :
                      /\ k <= upto + 1 + max_blks_read_for_additional_check
                      /\ journal[k].magic = LOG_GROUP_HDR_MAGIC
                      /\ journal[k].start_log_idx >= log_idx
    IN  /\ ld_state = "down"
        /\ ld_state' = IF future THEN "aborted" ELSE "up"
        /\ found_log' = do_load_cbs(journal, 1, upto)
        /\ dev_at_load' = DevRecords(journal, 1)
        /\ m_log_idx' = log_idx
        /\ m_log_records' = NoRecords
        /\ m_last_flush_idx' = log_idx - 1
        /\ tail_offset' = IF upto = 0 THEN 0
                           ELSE journal[upto].m_log_dev_offset + journal[upto].group_size
        /\ UNCHANGED <<m_pending_flush_size, m_is_flushing, m_last_crc, m_block_flush_q,
                       inflight, journal, t_pc, t_idx, t_rec, lock_held, alloc_hist,
                       comp_log, last_read, cb_run,
                       n_appends, n_stops, n_locks, n_reads, n_groups>>

\* ---- read ----------------------------------------------------------------
\* LogDev::read(key): the payload it returns, or not ok where an assert fails
read(dev, key) ==
    IF ~\E k \in 1..Len(dev) : dev[k].m_log_dev_offset = key.dev_offset
    THEN [ok |-> FALSE, data |-> 0]
    ELSE LET header == dev[CHOOSE k \in 1..Len(dev) : dev[k].m_log_dev_offset = key.dev_offset]
             n == key.idx - header.start_log_idx + 1
             size == header.slots[n].size
             data_offset == DataOffset(header, n)
             rounded_data_offset == round_down(data_offset, dma_address_boundary)
         IN  IF \/ header.magic # LOG_GROUP_HDR_MAGIC
                \/ ~(header.start_log_idx <= key.idx)
                \/ ~(header.start_log_idx + header.n_log_records > key.idx)
                \/ (header.group_size <= initial_read_size
                       /\ header.cur_grp_crc # compute_crc(header.slots))
             THEN [ok |-> FALSE, data |-> 0]
             ELSE IF data_offset + size < initial_read_size
                  THEN GroupBytes(header, data_offset, size)
                  ELSE GroupBytes(header,
                                  rounded_data_offset + (data_offset - rounded_data_offset),
                                  size)

\* a reader asks for a record by the key its completion callback carried
Read(e) ==
    /\ ld_state = "up"
    /\ e \in 1..Len(comp_log)
    /\ n_reads' = n_reads + 1
    /\ last_read' = [idx |-> comp_log[e].idx, want |-> comp_log[e].data,
                     got |-> read(journal, [idx |-> comp_log[e].idx,
                                            dev_offset |-> comp_log[e].dev_offset])]
    /\ UNCHANGED <<ld_state, m_log_idx, m_log_records, m_pending_flush_size, m_is_flushing,
                   m_last_flush_idx, m_last_crc, m_block_flush_q, inflight, journal,
                   tail_offset, t_pc, t_idx, t_rec, lock_held, alloc_hist, comp_log,
                   found_log, dev_at_load, cb_run,
                   n_appends, n_stops, n_locks, n_groups>>

(***************************************************************************)
(* Part III : LogDevMetadata                                               *)
(***************************************************************************)
\* the ranges rollback() is called with
RollbackRanges == {<<0, 0>>, <<0, 1>>, <<1, 1>>}

\* rollback_superblk::add_record : at(num_records++) = {store_id, idx_range}
rollback_add_record(sb, store_id, idx_range) ==
    Append(sb, [store_id |-> store_id, idx_range |-> idx_range])

\* LogDevMetadata::is_rolled_back : some rollback interval of the store
\* covers logid
is_rolled_back(sb, store_id, logid) ==
    \E i \in 1..Len(sb) :
        /\ sb[i].store_id = store_id
        /\ sb[i].idx_range[1] <= logid
        /\ logid <= sb[i].idx_range[2]

\* LogDev::rollback(store_id, id_range) : add_rollback_record with
\* persist_now = true; returns true
Rollback(store_id, id_range) ==
    /\ ld_state = "up"
    /\ m_rollback_sb' = rollback_add_record(m_rollback_sb, store_id, id_range)
    /\ n_rollbacks' = n_rollbacks + 1

InitMDVars ==
    /\ m_rollback_sb = << >>
    /\ n_rollbacks = 0

InitIOVars == flush_failed = {}

InitSTVars ==
    /\ stop_hist = {}
    /\ alloc_after_stop = {}

(***************************************************************************)
(* Part IV : AppendBlkAllocator                                            *)
(***************************************************************************)
\* get_used_blks()
get_used_blks(last_append_offset) == last_append_offset

\* available_blks() : get_total_blks() - get_used_blks()
available_blks(last_append_offset) ==
    (TotalBlks - get_used_blks(last_append_offset)) % BlkNumModulus

\* the checks of alloc() without the floor of the reserved blocks at 0
alloc_status_NoFloor(nblks, hint, last_append_offset) ==
    LET avail == IF hint # NoHint
                 THEN (available_blks(last_append_offset) - hint) % BlkNumModulus
                 ELSE available_blks(last_append_offset)
    IN  IF avail < nblks THEN "SPACE_FULL"
        ELSE IF nblks > MaxBlksPerBlkid THEN "FAILED"
        ELSE "SUCCESS"

\* the checks of alloc() and the status they lead to
alloc_status(nblks, hint, last_append_offset) ==
    LET avail_blks == available_blks(last_append_offset)
        avail == IF hint # NoHint
                 THEN (IF avail_blks > hint THEN avail_blks - hint ELSE 0)
                 ELSE avail_blks
    IN  IF avail < nblks THEN "SPACE_FULL"
        ELSE IF nblks > MaxBlksPerBlkid THEN "FAILED"
        ELSE "SUCCESS"

\* m_last_append_offset.fetch_add(nblks) : the value stored
fetch_add_NoAdvance(offset, nblks) == offset

fetch_add(offset, nblks) == offset + nblks

\* is_blk_alloced(in_bid)
is_blk_alloced(bid, last_append_offset) == bid.blk_num < get_used_blks(last_append_offset)

\* is_blk_alloced_on_disk(bid)
is_blk_alloced_on_disk(blk_num, sb) == blk_num < sb.commit_offset

\* the compare-exchange loops of reserve_on_disk and reserve_on_cache
reserve_offset_Store(cur_offset, new_offset) == new_offset

reserve_offset(cur_offset, new_offset) ==
    IF cur_offset >= new_offset THEN cur_offset ELSE new_offset

\* the four in-memory members
AbMembers == <<m_last_append_offset, m_commit_offset, m_freeable_nblks, m_is_dirty>>

\* the BlkIds handed out since the last reset or restart
Issued == {alloc_log[i].bid : i \in 1..Len(alloc_log)}

\* alloc(nblks, hint, out_bid) by the one writer of the chunk
Alloc(nblks, hint) ==
    LET status == alloc_status(nblks, hint, m_last_append_offset)
        out_bid == [blk_num |-> m_last_append_offset, blk_count |-> nblks]
    IN  /\ ~ab_recovering
        /\ \A c \in AbCallers : a_pc[c] = 0
        /\ n_allocs' = n_allocs + 1
        /\ m_last_append_offset' = IF status = "SUCCESS"
                                   THEN fetch_add(m_last_append_offset, nblks)
                                   ELSE m_last_append_offset
        /\ alloc_log' = IF status = "SUCCESS"
                        THEN Append(alloc_log, [bid |-> out_bid,
                                                before |-> m_last_append_offset,
                                                after |-> m_last_append_offset'])
                        ELSE alloc_log
        /\ UNCHANGED <<m_commit_offset, m_freeable_nblks, m_is_dirty, m_sb, sb_disk,
                       ab_recovering, a_pc, journal_bids, cache_reserved, n_ab_frees, n_resets, n_reboots>>
        /\ last_alloc' = [status |-> status, nblks |-> nblks, hint |-> hint,
                          pre |-> AbMembers, post |-> AbMembers',
                          bid |-> IF status = "SUCCESS" THEN out_bid ELSE NoBid]

\* alloc() of one of several callers, up to its checks
AllocCheck(c, nblks, hint) ==
    /\ ~ab_recovering
    /\ a_pc[c] = 0
    /\ n_allocs' = n_allocs + 1
    /\ a_pc' = [a_pc EXCEPT ![c] = IF alloc_status(nblks, hint, m_last_append_offset) = "SUCCESS"
                                   THEN nblks ELSE 0]
    /\ UNCHANGED <<m_last_append_offset, m_commit_offset, m_freeable_nblks, m_is_dirty,
                   m_sb, sb_disk, ab_recovering, alloc_log, journal_bids, cache_reserved, last_alloc,
                   n_ab_frees, n_resets, n_reboots>>

\* out_bid = BlkId{m_last_append_offset.fetch_add(nblks), nblks, m_chunk_id}
AllocFetchAdd(c) ==
    /\ a_pc[c] > 0
    /\ m_last_append_offset' = fetch_add(m_last_append_offset, a_pc[c])
    /\ alloc_log' = Append(alloc_log, [bid |-> [blk_num |-> m_last_append_offset,
                                                 blk_count |-> a_pc[c]],
                                        before |-> m_last_append_offset,
                                        after |-> m_last_append_offset'])
    /\ a_pc' = [a_pc EXCEPT ![c] = 0]
    /\ UNCHANGED <<m_commit_offset, m_freeable_nblks, m_is_dirty, m_sb, sb_disk,
                   ab_recovering, journal_bids, cache_reserved, last_alloc,
                   n_allocs, n_ab_frees, n_resets, n_reboots>>

\* reserve_on_disk(blkid) for a BlkId of this run, or of the journal once the
\* replay has reserved it on cache, that is_blk_alloced (its HS_DBG_ASSERT)
ReserveOnDisk(bid) ==
    /\ bid \in Issued \cup cache_reserved
    /\ is_blk_alloced(bid, m_last_append_offset)
    /\ m_commit_offset' = reserve_offset(m_commit_offset, bid.blk_num + bid.blk_count)
    /\ m_is_dirty' = IF m_commit_offset >= bid.blk_num + bid.blk_count THEN m_is_dirty ELSE TRUE
    /\ UNCHANGED <<m_last_append_offset, m_freeable_nblks, m_sb, sb_disk, ab_recovering,
                   a_pc, alloc_log, journal_bids, cache_reserved, last_alloc,
                   n_allocs, n_ab_frees, n_resets, n_reboots>>

\* reserve_on_cache(blkid) while the journal is replayed
ReserveOnCache(bid) ==
    /\ ab_recovering
    /\ bid \in journal_bids
    /\ m_last_append_offset' = reserve_offset(m_last_append_offset, bid.blk_num + bid.blk_count)
    /\ cache_reserved' = cache_reserved \cup {bid}
    /\ UNCHANGED <<m_commit_offset, m_freeable_nblks, m_is_dirty, m_sb, sb_disk,
                   ab_recovering, a_pc, alloc_log, journal_bids, last_alloc,
                   n_allocs, n_ab_frees, n_resets, n_reboots>>

\* the replay is over: BlkIds that were not reserved again are forgotten
RecoveryDone ==
    /\ ab_recovering
    /\ ab_recovering' = FALSE
    /\ journal_bids' = {}
    /\ cache_reserved' = {}
    /\ UNCHANGED <<m_last_append_offset, m_commit_offset, m_freeable_nblks, m_is_dirty,
                   m_sb, sb_disk, a_pc, alloc_log, last_alloc,
                   n_allocs, n_ab_frees, n_resets, n_reboots>>

\* what cp_flush puts into the superblock
sb_image_CommitOnly(commit_offset, freeable_nblks) == [commit_offset |-> commit_offset, freeable_nblks |-> 0]

sb_image(commit_offset, freeable_nblks) == [commit_offset |-> commit_offset, freeable_nblks |-> freeable_nblks]

\* cp_flush(cp) that finds the dirty flag set
CpFlush ==
    /\ m_is_dirty
    /\ m_is_dirty' = FALSE
    /\ m_sb' = sb_image(m_commit_offset, m_freeable_nblks)
    /\ sb_disk' = [written |-> TRUE, commit_offset |-> m_sb'.commit_offset,
                   freeable_nblks |-> m_sb'.freeable_nblks]
    /\ UNCHANGED <<m_last_append_offset, m_commit_offset, m_freeable_nblks, ab_recovering,
                   a_pc, alloc_log, journal_bids, cache_reserved, last_alloc,
                   n_allocs, n_ab_frees, n_resets, n_reboots>>

\* free(bid)
AbFree(bid) ==
    /\ bid \in Issued
    /\ n_ab_frees' = n_ab_frees + 1
    /\ m_freeable_nblks' = m_freeable_nblks + bid.blk_count
    /\ m_is_dirty' = TRUE
    /\ UNCHANGED <<m_last_append_offset, m_commit_offset, m_sb, sb_disk, ab_recovering,
                   a_pc, alloc_log, journal_bids, cache_reserved, last_alloc,
                   n_allocs, n_resets, n_reboots>>

\* reset() of a chunk nobody allocates from at the moment
AbReset ==
    /\ ~ab_recovering
    /\ \A c \in AbCallers : a_pc[c] = 0
    /\ n_resets' = n_resets + 1
    /\ m_last_append_offset' = 0
    /\ m_freeable_nblks' = 0
    /\ m_commit_offset' = 0
    /\ m_is_dirty' = TRUE
    /\ alloc_log' = << >>
    /\ UNCHANGED <<m_sb, sb_disk, ab_recovering, a_pc, journal_bids, cache_reserved, last_alloc,
                   n_allocs, n_ab_frees, n_reboots>>

\* the process restarts and the metablock is found: the constructor without
\* format, then on_meta_blk_found
OnMetaBlkFound_CommitOnly(sb) ==
    /\ m_last_append_offset' = 0
    /\ m_commit_offset' = sb.commit_offset
    /\ m_freeable_nblks' = sb.freeable_nblks

OnMetaBlkFound(sb) ==
    /\ m_last_append_offset' = sb.commit_offset
    /\ m_commit_offset' = sb.commit_offset
    /\ m_freeable_nblks' = sb.freeable_nblks

AbReboot ==
    /\ sb_disk.written
    /\ n_reboots' = n_reboots + 1
    /\ m_sb' = [commit_offset |-> sb_disk.commit_offset, freeable_nblks |-> sb_disk.freeable_nblks]
    /\ OnMetaBlkFound(m_sb')
    /\ m_is_dirty' = FALSE
    /\ ab_recovering' = TRUE
    /\ a_pc' = [c \in AbCallers |-> 0]
    /\ journal_bids' = journal_bids \cup Issued
    /\ cache_reserved' = {}
    /\ alloc_log' = << >>
    /\ UNCHANGED <<sb_disk, last_alloc, n_allocs, n_ab_frees, n_resets>>

\* AppendBlkAllocator(cfg, need_format = true, id)
InitABVars ==
    /\ m_last_append_offset = 0
    /\ m_commit_offset = 0
    /\ m_freeable_nblks = 0
    /\ m_is_dirty = FALSE
    /\ m_sb = [commit_offset |-> 0, freeable_nblks |-> 0]
    /\ sb_disk = [written |-> FALSE, commit_offset |-> 0, freeable_nblks |-> 0]
    /\ ab_recovering = FALSE
    /\ a_pc = [c \in AbCallers |-> 0]
    /\ alloc_log = << >>
    /\ journal_bids = {}
    /\ cache_reserved = {}
    /\ last_alloc = [status |-> "NONE", nblks |-> 0, hint |-> NoHint,
                     pre |-> <<0, 0, 0, FALSE>>, post |-> <<0, 0, 0, FALSE>>, bid |-> NoBid]
    /\ n_allocs = 0
    /\ n_ab_frees = 0
    /\ n_resets = 0
    /\ n_reboots = 0

(***************************************************************************)
(* Part V : reserve_on_disk and reserve_on_cache step by step              *)
(***************************************************************************)
ResCallers == {"r1", "r2"}

ResIdle == [pc |-> "idle", kind |-> "none", bid |-> NoBid, new_offset |-> 0,
            cur_offset |-> 0, modified |-> FALSE, raised |-> FALSE, retries |-> 0]

Max2(a, b) == IF a >= b THEN a ELSE b

\* the members of the allocator the two calls never write
ab_rest == <<m_freeable_nblks, m_sb, sb_disk, ab_recovering, a_pc, alloc_log, journal_bids, last_alloc, n_allocs, n_ab_frees, n_resets, n_reboots>>

\* the entry of either call: the assert of reserve_on_disk, new_offset, and
\* the load of cur_offset
ReserveBegin(c, kind, bid) ==
    /\ r_pc[c].pc = "idle"
    /\ kind = "disk" => /\ bid \in Issued \cup cache_reserved
                         /\ is_blk_alloced(bid, m_last_append_offset)
    /\ kind = "cache" => /\ ab_recovering
                          /\ bid \in journal_bids
    /\ r_pc' = [r_pc EXCEPT ![c] =
                   [pc |-> "loop", kind |-> kind, bid |-> bid,
                    new_offset |-> bid.blk_num + bid.blk_count,
                    cur_offset |-> IF kind = "disk" THEN m_commit_offset ELSE m_last_append_offset,
                    modified |-> TRUE, raised |-> FALSE, retries |-> 0]]
    /\ disk_max' = IF kind = "disk" THEN Max2(disk_max, bid.blk_num + bid.blk_count) ELSE disk_max
    /\ cache_max' = IF kind = "cache" THEN Max2(cache_max, bid.blk_num + bid.blk_count) ELSE cache_max
    /\ n_reserves' = n_reserves + 1
    /\ UNCHANGED <<m_last_append_offset, m_commit_offset, m_is_dirty, cache_reserved, ab_rest>>

\* compare_exchange_weak(cur_offset, new_offset) on the atomic: the value
\* stored, and the value cur_offset holds afterwards
cas_store_Blind(atomic, cur_offset, new_offset) == new_offset

cas_store(atomic, cur_offset, new_offset) == IF atomic = cur_offset THEN new_offset ELSE atomic

\* one round of the do-while loop of either call
ReserveLoop(c) ==
    LET r == r_pc[c]
        atomic == IF r.kind = "disk" THEN m_commit_offset ELSE m_last_append_offset
    IN  /\ r.pc = "loop"
        /\ IF r.cur_offset >= r.new_offset
           THEN /\ r_pc' = [r_pc EXCEPT ![c].pc = "after", ![c].modified = FALSE]
                /\ UNCHANGED <<m_commit_offset, m_last_append_offset>>
           ELSE /\ r_pc' = [r_pc EXCEPT ![c].pc = IF atomic = r.cur_offset THEN "after" ELSE "loop",
                                        ![c].cur_offset = atomic,
                                        ![c].raised = (atomic = r.cur_offset),
                                        ![c].retries = IF atomic = r.cur_offset THEN @ ELSE @ + 1]
                /\ m_commit_offset' = IF r.kind = "disk"
                                      THEN cas_store(atomic, r.cur_offset, r.new_offset)
                                      ELSE m_commit_offset
                /\ m_last_append_offset' = IF r.kind = "cache"
                                           THEN cas_store(atomic, r.cur_offset, r.new_offset)
                                           ELSE m_last_append_offset
        /\ UNCHANGED <<m_is_dirty, cache_reserved, ab_rest, disk_max, cache_max, n_reserves>>

\* if (modified) { m_is_dirty.store(true); } and the return of either call
ReserveEnd(c) ==
    LET r == r_pc[c]
    IN  /\ r.pc = "after"
        /\ m_is_dirty' = IF r.kind = "disk" /\ r.modified THEN TRUE ELSE m_is_dirty
        /\ cache_reserved' = IF r.kind = "cache" THEN cache_reserved \cup {r.bid} ELSE cache_reserved
        /\ r_pc' = [r_pc EXCEPT ![c] = ResIdle]
        /\ UNCHANGED <<m_last_append_offset, m_commit_offset, ab_rest, disk_max, cache_max, n_reserves>>

\* a restart while calls may be under way: they are gone with the process
AbRebootRes ==
    /\ AbReboot
    /\ r_pc' = [c \in ResCallers |-> ResIdle]
    /\ disk_max' = sb_disk.commit_offset
    /\ cache_max' = sb_disk.commit_offset
    /\ UNCHANGED n_reserves

\* reset() of a chunk no reserve call is working on
AbResetRes ==
    /\ \A c \in ResCallers : r_pc[c].pc = "idle"
    /\ AbReset
    /\ disk_max' = 0
    /\ cache_max' = 0
    /\ UNCHANGED <<r_pc, n_reserves>>

\* the replay ends when no call is under way
RecoveryDoneRes ==
    /\ \A c \in ResCallers : r_pc[c].pc = "idle"
    /\ RecoveryDone
    /\ UNCHANGED rs_vars

InitRSVars ==
    /\ r_pc = [c \in ResCallers |-> ResIdle]
    /\ disk_max = 0
    /\ cache_max = 0
    /\ n_reserves = 0

\* cp_flush(cp), whatever the dirty flag is
CpFlushAny ==
    /\ n_cp_flushes' = n_cp_flushes + 1
    /\ IF m_is_dirty THEN CpFlush ELSE UNCHANGED ab_vars

InitCFVars == n_cp_flushes = 0

(***************************************************************************)
(* Part VI : WriteBackCache, node buffers and refresh_buf                  *)
(***************************************************************************)
\* the two nodes that are written in SpecWBMem and SpecWBFree
MemNodes == {1, 2}

\* the three nodes A, B, C that are written in SpecWB
TreeNodes == {1, 2, 3}

\* the status refresh_buf returns
refresh_status_ReadsPass(node_cp, cp, is_write_modifiable) ==
    IF cp = NoCp \/ node_cp = NoCp THEN "success"
    ELSE IF ~is_write_modifiable THEN "success"
    ELSE IF node_cp = cp THEN "success"
    ELSE IF node_cp > cp THEN "cp_mismatch"
    ELSE "success"

refresh_status(node_cp, cp, is_write_modifiable) ==
    IF cp = NoCp \/ node_cp = NoCp THEN "success"
    ELSE IF ~is_write_modifiable THEN (IF node_cp > cp THEN "cp_mismatch" ELSE "success")
    ELSE IF node_cp = cp THEN "success"
    ELSE IF node_cp > cp THEN "cp_mismatch"
    ELSE "success"

\* whether refresh_buf reaches "make a copy"
refresh_copies_Never(bn, cp, is_write_modifiable) == FALSE

refresh_copies(bn, cp, is_write_modifiable) ==
    /\ cp # NoCp
    /\ node_bcp[bn] # NoCp
    /\ is_write_modifiable
    /\ node_bcp[bn] < cp
    /\ LET req == node_req[bn][(cp - 1) % MAX_CP_CNT]
       IN  req # NoReq /\ reqs[req].state # WB_REQ_COMPL

\* the node's memvec and the buffers after refresh_buf
refresh_mem(bn, cp, is_write_modifiable) ==
    IF refresh_copies(bn, cp, is_write_modifiable)
    THEN [mem |-> Len(buf_data) + 1, data |-> Append(buf_data, buf_data[node_mem[bn]])]
    ELSE [mem |-> node_mem[bn], data |-> buf_data]

\* what a refresh_buf call saw, returned and left behind
RefreshRecord(bn, cp, is_write_modifiable, rm) ==
    [writeable |-> is_write_modifiable,
     order |-> IF cp = NoCp \/ node_bcp[bn] = NoCp THEN "null"
               ELSE IF node_bcp[bn] > cp THEN "newer"
               ELSE IF node_bcp[bn] = cp THEN "equal" ELSE "older",
     status |-> refresh_status(node_bcp[bn], cp, is_write_modifiable),
     copied |-> rm.mem # node_mem[bn], same_bytes |-> rm.data = buf_data]

\* refresh_buf(bn, is_write_modifiable, bcp) of a thread inside checkpoint cp
\* (or with no checkpoint) that does not go on to write the node
RefreshBuf(bn, is_write_modifiable, cp) ==
    LET rm == refresh_mem(bn, cp, is_write_modifiable)
    IN  /\ cp # NoCp => cp_phase[cp] = "open"
        /\ n_refresh' = n_refresh + 1
        /\ node_mem' = [node_mem EXCEPT ![bn] = rm.mem]
        /\ buf_data' = rm.data
        /\ last_refresh' = RefreshRecord(bn, cp, is_write_modifiable, rm)
        /\ UNCHANGED <<req_mem, req_img, wb_vars>>

\* write(bn, dependent_bn, bcp) with the branch that only takes the memvec
WriteBuf(bn, dependent_bn, c) ==
    IF no_req(bn, CpSlot(c)) \/ dependent_bn # NoNode
    THEN Write(bn, dependent_bn, c)
    ELSE /\ cp_phase[c] = "open"
         /\ c = CurCp
         /\ n_writes' = n_writes + 1
         /\ wb_assert_ok' = (wb_assert_ok /\ reqs[node_req[bn][CpSlot(c)]].state = WB_REQ_WAITING)
         /\ UNCHANGED <<reqs, node_req, node_bcp, m_req_list, m_dirty_buf_cnt, m_free_list,
                        m_free_list_cnt, cp_free_list, cp_phase, cp_blkalloc, flush_it,
                        succ_hist, cp_comp_log, ba_freed, n_free>>

\* a mutation of node bn in checkpoint c under the node's lock: refresh_buf for
\* write access, and on success the change of the bytes and write()
NodeUpdate(bn, dependent_bn, c) ==
    LET rm == refresh_mem(bn, c, TRUE)
        status == refresh_status(node_bcp[bn], c, TRUE)
        create == no_req(bn, CpSlot(c))
        wb_req == IF create THEN Len(reqs) + 1 ELSE node_req[bn][CpSlot(c)]
        bytes == n_writes + 1
    IN  /\ last_refresh' = RefreshRecord(bn, c, TRUE, rm)
        /\ IF status = "success"
           THEN /\ WriteBuf(bn, dependent_bn, c)
                /\ node_mem' = [node_mem EXCEPT ![bn] = rm.mem]
                /\ buf_data' = [rm.data EXCEPT ![rm.mem] = bytes]
                /\ req_mem' = IF create THEN Append(req_mem, rm.mem)
                              ELSE [req_mem EXCEPT ![wb_req] = rm.mem]
                /\ req_img' = IF create THEN Append(req_img, bytes)
                              ELSE [req_img EXCEPT ![wb_req] = bytes]
                /\ UNCHANGED n_refresh
           ELSE /\ cp_phase[c] = "open"
                /\ n_refresh < MaxRefresh
                /\ n_refresh' = n_refresh + 1
                /\ UNCHANGED <<node_mem, buf_data, req_mem, req_img, wb_vars>>

InitMVVars ==
    /\ node_mem = [n \in Nodes |-> n]
    /\ buf_data = [n \in Nodes |-> 0]
    /\ req_mem = << >>
    /\ req_img = << >>
    /\ last_refresh = [writeable |-> FALSE, order |-> "null",
                       status |-> "none", copied |-> FALSE, same_bytes |-> TRUE]
    /\ n_refresh = 0

(***************************************************************************)
(* Part VII : LogDev, unlock_flush step by step                            *)
(***************************************************************************)
\* unlock_flush up to the end of its queue block: the callbacks that are
\* queued run and the queue is cleared; m_is_flushing is still set
unlock_drain ==
    /\ ul_pc = "idle"
    /\ cb_run' = cb_run \cup {m_block_flush_q[i] : i \in 1..Len(m_block_flush_q)}
    /\ m_block_flush_q' = << >>
    /\ ul_pc' = "drained"

\* on_flush_completion(lg) of a written group, up to the queue block of the
\* unlock_flush it ends with
OnFlushCompletionDrain(lg) ==
    /\ ld_state = "up"
    /\ lg \in inflight
    /\ ~AtThrows(lg, m_log_records)
    /\ journal' = DevWrite(journal, lg)
    /\ comp_log' = comp_log \o CompletionCbs(lg, m_log_records, lg.m_flush_log_idx_from)
    /\ m_last_flush_idx' = lg.m_flush_log_idx_upto
    /\ m_last_crc' = lg.cur_grp_crc
    /\ inflight' = inflight \ {lg}
    /\ unlock_drain
    /\ UNCHANGED <<ld_state, m_log_idx, m_log_records, m_pending_flush_size, m_is_flushing,
                   tail_offset, t_pc, t_idx, t_rec, lock_held, alloc_hist,
                   found_log, dev_at_load, last_read,
                   n_appends, n_stops, n_locks, n_reads, n_groups>>

\* unlock_flush of the caller that try_lock_flush let in, up to the same point
UnlockFlushDrain ==
    /\ ld_state = "up"
    /\ lock_held
    /\ lock_held' = FALSE
    /\ unlock_drain
    /\ UNCHANGED <<ld_state, m_log_idx, m_log_records, m_pending_flush_size, m_is_flushing,
                   m_last_flush_idx, m_last_crc, inflight, journal, tail_offset,
                   t_pc, t_idx, t_rec, alloc_hist, comp_log, found_log, dev_at_load,
                   last_read, n_appends, n_stops, n_locks, n_reads, n_groups>>

\* the rest of unlock_flush: m_is_flushing.store(false) and flush_if_needed()
UnlockStore ==
    /\ ld_state = "up"
    /\ ul_pc = "drained"
    /\ ul_pc' = "idle"
    /\ \E elapsed \in BOOLEAN :
         LET r == flush_if_needed(0, -1, elapsed, m_pending_flush_size, FALSE, m_log_idx,
                                  m_log_records, m_last_flush_idx, m_last_crc, tail_offset,
                                  n_groups + 1)
         IN  /\ m_pending_flush_size' = r.pending
             /\ m_is_flushing' = r.is_flushing
             /\ tail_offset' = r.tail
             /\ n_groups + r.n <= MaxGroups
             /\ n_groups' = n_groups + r.n
             /\ inflight' = inflight \cup r.groups
    /\ UNCHANGED <<ld_state, m_log_idx, m_log_records, m_last_flush_idx, m_last_crc,
                   m_block_flush_q, journal, t_pc, t_idx, t_rec, lock_held, alloc_hist,
                   comp_log, found_log, dev_at_load, last_read, cb_run,
                   n_appends, n_stops, n_locks, n_reads>>

InitLKVars == ul_pc = "idle"

(***************************************************************************)
(* Part VIII : vol_interface_req                                           *)
(***************************************************************************)
SeCallers == {"e1", "e2", "e3"}

no_error == "no_error"

ErrCodes == {"io_error", "no_space"}

SeIdle == [pc |-> "idle", ec |-> no_error]

\* is_fail_completed.compare_exchange_strong(expected_val = false, true)
cas_fail_completed_Always(flag) == TRUE

cas_fail_completed(flag) == ~flag

\* std::error_condition get_status() const
get_status == err

\* set_error(ec) up to the compare-exchange; the call that fails it returns false
SetErrorCas(c, ec) ==
    LET won == cas_fail_completed(is_fail_completed)
    IN  /\ se_pc[c].pc = "idle"
        /\ n_set_errors' = n_set_errors + 1
        /\ is_fail_completed' = (is_fail_completed \/ won)
        /\ se_pc' = [se_pc EXCEPT ![c] = IF won THEN [pc |-> "won", ec |-> ec] ELSE SeIdle]
        /\ se_hist' = Append(se_hist, [ec |-> ec, ret |-> won,
                                       overlapped |-> \E d \in SeCallers : se_pc[d].pc = "won"])
        /\ UNCHANGED <<err, request_id, request_id_counter, n_inits>>

\* err = ec; return true
SetErrorStore(c) ==
    /\ se_pc[c].pc = "won"
    /\ err' = se_pc[c].ec
    /\ se_pc' = [se_pc EXCEPT ![c] = SeIdle]
    /\ UNCHANGED <<is_fail_completed, request_id, request_id_counter, se_hist,
                   n_set_errors, n_inits>>

\* init(): the request is taken for a new io, no call on it is under way
VolReqInit ==
    /\ \A c \in SeCallers : se_pc[c].pc = "idle"
    /\ n_inits' = n_inits + 1
    /\ is_fail_completed' = FALSE
    /\ request_id' = request_id_counter
    /\ request_id_counter' = request_id_counter + 1
    /\ err' = no_error
    /\ se_hist' = << >>
    /\ UNCHANGED <<se_pc, n_set_errors>>

\* the request after its constructor and its first init()
InitVEVars ==
    /\ is_fail_completed = FALSE
    /\ err = no_error
    /\ request_id = 0
    /\ request_id_counter = 1
    /\ se_pc = [c \in SeCallers |-> SeIdle]
    /\ se_hist = << >>
    /\ n_set_errors = 0
    /\ n_inits = 0

(***************************************************************************)
(* Part IX : WriteBackCache, write() step by step                          *)
(***************************************************************************)
WrIdle == [pc |-> "idle", wbd_req |-> NoReq, wb_req |-> NoReq]

\* write(bn, dependent_bn, bcp) up to the assert on the request's state:
\* wbd_req is read, the request is created or found
WriteBegin(bn, dependent_bn, c) ==
    LET cp_id == CpSlot(c)
        wbd_req == IF dependent_bn # NoNode THEN node_req[dependent_bn][cp_id] ELSE NoReq
        create == no_req(bn, cp_id)
        wb_req == IF create THEN Len(reqs) + 1 ELSE node_req[bn][cp_id]
        reqs1 == IF create THEN Append(reqs, NewWbReq(bn, c)) ELSE reqs
    IN  /\ w_pc.pc = "idle"
        /\ cp_phase[c] = "open"
        /\ c = CurCp
        /\ create \/ dependent_bn # NoNode
        /\ dependent_bn # NoNode => (dependent_bn < bn /\ node_req[dependent_bn][cp_id] # NoReq)
        /\ n_writes' = n_writes + 1
        /\ wb_assert_ok' = (wb_assert_ok /\ reqs1[wb_req].state = WB_REQ_WAITING)
        /\ reqs' = reqs1
        /\ node_req' = IF create THEN [node_req EXCEPT ![bn][cp_id] = wb_req] ELSE node_req
        /\ node_bcp' = IF create THEN [node_bcp EXCEPT ![bn] = c] ELSE node_bcp
        /\ m_req_list' = IF create THEN [m_req_list EXCEPT ![cp_id] = Append(@, wb_req)]
                         ELSE m_req_list
        /\ m_dirty_buf_cnt' = IF create THEN [m_dirty_buf_cnt EXCEPT ![cp_id] = @ + 1]
                              ELSE m_dirty_buf_cnt
        /\ w_pc' = IF wbd_req # NoReq
                   THEN [pc |-> "linking", wbd_req |-> wbd_req, wb_req |-> wb_req]
                   ELSE WrIdle
        /\ UNCHANGED <<m_free_list, m_free_list_cnt, cp_free_list, cp_phase, cp_blkalloc,
                       flush_it, succ_hist, cp_comp_log, ba_freed, n_free>>

\* if (wbd_req) { lock wbd_req->mtx; req_q.push_back(wb_req); dependent_cnt++ }
WriteLink ==
    /\ w_pc.pc = "linking"
    /\ reqs' = LinkDependent(reqs, w_pc.wbd_req, w_pc.wb_req)
    /\ succ_hist' = succ_hist \cup {<<w_pc.wbd_req, w_pc.wb_req>>}
    /\ w_pc' = WrIdle
    /\ UNCHANGED <<node_req, node_bcp, m_req_list, m_dirty_buf_cnt, m_free_list,
                   m_free_list_cnt, cp_free_list, cp_phase, cp_blkalloc, flush_it,
                   cp_comp_log, ba_freed, wb_assert_ok, n_writes, n_free>>

\* ---- the life of a request ----------------------------------------------
\* enum writeback_req_state
state_rank(st) == CASE st = WB_REQ_INIT -> 0
                    [] st = WB_REQ_WAITING -> 1
                    [] st = WB_REQ_SENT -> 2
                    [] st = WB_REQ_COMPL -> 3

\* some intrusive_ptr holds request r: bn->req[], m_req_list[], a req_q, the
\* block store and its completion callback, the locals of write()
Referenced(r) ==
    \/ \E n \in Nodes, s \in Slots : node_req[n][s] = r
    \/ \E s \in Slots : \E i \in 1..Len(m_req_list[s]) : m_req_list[s][i] = r
    \/ \E q \in ReqIds : \E i \in 1..Len(reqs[q].req_q) : reqs[q].req_q[i] = r
    \/ (reqs[r].state = WB_REQ_SENT /\ reqs[r].cpl = "none")
    \/ reqs[r].cpl = "drained"
    \/ w_pc.wb_req = r
    \/ w_pc.wbd_req = r

\* flush_buffers of r's checkpoint has been at r and dropped its self-reference
FlushPassed(r) ==
    LET c == reqs[r].cp
        list == m_req_list[CpSlot(c)]
    IN  /\ cp_phase[c] \notin {"none", "open"}
        /\ \A i \in 1..Len(list) : list[i] = r => i < flush_it[c]

InitWRVars == w_pc = WrIdle

InitLateVars == InitLKVars /\ InitVEVars /\ InitWRVars

\* no call under way
NoCall == [fn |-> "none"]
NoRet == [fn |-> "none"]
InitFnVars == call = NoCall /\ ret = NoRet

(***************************************************************************)
(* VirtualDev : alloc_blk over the chunks of the vdev                       *)
(***************************************************************************)
\* the chunks of the vdev, each with an allocator of TotalBlks blocks
VdChunks == {1, 2}

\* what the callers ask for: one block, or three parts of max_blks_in_op blocks
VdSizes == {1, 3 * MaxBlksPerBlkid}

\* the rounds of the do-while of do_alloc_blk are counted modulo VdRounds
VdRounds == 3

VdIdle == [pc |-> "idle"]
NoVdCall == [status |-> "NONE"]

\* std::min(BlkId::max_blks_in_op(), nblks)
nblks_op(nblks) == IF MaxBlksPerBlkid < nblks THEN MaxBlksPerBlkid ELSE nblks

\* chunk->blk_allocator_mutable()->alloc(nblks, hints, chunk_blkid)
alloc_blk_from_chunk(nblks, chunk, used) ==
    LET status == alloc_status(nblks, NoHint, used[chunk])
    IN  [status |-> status,
         blkid |-> [chunk |-> chunk, blk_num |-> used[chunk], blk_count |-> nblks],
         used |-> IF status = "SUCCESS"
                  THEN [used EXCEPT ![chunk] = fetch_add(used[chunk], nblks)]
                  ELSE used]

\* the loop of alloc_blk over the BlkIds of a failed call: what is passed
\* to free_blk and what is left of out_blkid
RECURSIVE alloc_blk_rollback(_, _, _, _)
alloc_blk_rollback(blkids, start_idx, i, freed) ==
    IF i < Len(blkids)
    THEN alloc_blk_rollback(SubSeq(blkids, 1, start_idx), start_idx, i + 1,
                            Append(freed, blkids[i + 1]))
    ELSE [out_blkid |-> blkids, freed |-> freed]

\* alloc_blk(nblks, hints, out_blkid) is called: start_idx = out_blkid.size().
\* The caller passes the vector it has or an empty one.
VdAllocBlk(nblks, can_look, keep) ==
    /\ vd_pc.pc = "idle"
    /\ out_blkid' = IF keep THEN out_blkid ELSE << >>
    /\ vd_pc' = [pc |-> "while", nblks |-> nblks, can_look |-> can_look,
                 start_idx |-> Len(out_blkid'), entry |-> out_blkid', appended |-> << >>,
                 round |-> 0]
    /\ vd_last' = NoVdCall
    /\ UNCHANGED chunk_used

\* while (nblks != 0): the next part enters do_alloc_blk; return SUCCESS at 0
VdNextPart ==
    /\ vd_pc.pc = "while"
    /\ IF vd_pc.nblks # 0
       THEN /\ vd_pc' = [vd_pc EXCEPT !.pc = "select", !.round = 0]
            /\ UNCHANGED vd_last
       ELSE /\ vd_pc' = VdIdle
            /\ vd_last' = [status |-> "SUCCESS", can_look |-> vd_pc.can_look,
                           entry |-> vd_pc.entry, appended |-> vd_pc.appended,
                           out |-> out_blkid, freed |-> << >>]
    /\ UNCHANGED <<chunk_used, out_blkid>>

\* one round of the do-while of do_alloc_blk on the chunk the selector
\* gives, and what follows when the loop is left: the next part, or the
\* loop of alloc_blk over the BlkIds of the failed call
VdTryChunk(chunk) ==
    /\ vd_pc.pc = "select"
    /\ LET r == alloc_blk_from_chunk(nblks_op(vd_pc.nblks), chunk, chunk_used)
           first_failed_chunk == 0
           rb == alloc_blk_rollback(out_blkid, vd_pc.start_idx, vd_pc.start_idx, << >>)
       IN  /\ chunk_used' = r.used
           /\ IF r.status = "SUCCESS"
              THEN /\ out_blkid' = Append(out_blkid, r.blkid)
                   /\ vd_pc' = [vd_pc EXCEPT !.pc = "while", !.nblks = @ - nblks_op(@),
                                             !.appended = Append(@, r.blkid)]
                   /\ UNCHANGED vd_last
              ELSE IF ~vd_pc.can_look \/ chunk = first_failed_chunk
              THEN /\ out_blkid' = rb.out_blkid
                   /\ vd_pc' = VdIdle
                   /\ vd_last' = [status |-> r.status, can_look |-> vd_pc.can_look,
                                  entry |-> vd_pc.entry, appended |-> vd_pc.appended,
                                  out |-> rb.out_blkid, freed |-> rb.freed]
              ELSE /\ vd_pc' = [vd_pc EXCEPT !.round = (@ + 1) % VdRounds]
                   /\ UNCHANGED <<out_blkid, vd_last>>

InitVDVars ==
    /\ chunk_used = [c \in VdChunks |-> 0]
    /\ out_blkid = << >>
    /\ vd_pc = VdIdle
    /\ vd_last = NoVdCall

InitTailVars == InitFnVars /\ InitVDVars

InitMoreVars == InitRSVars /\ InitCFVars /\ InitMVVars /\ InitLateVars /\ InitTailVars

InitExtVars == InitMDVars /\ InitIOVars /\ InitSTVars /\ InitABVars /\ InitMoreVars

(***************************************************************************)
(* Specifications                                                          *)
(***************************************************************************)
InitLDVars ==
    /\ ld_state = "new"
    /\ m_log_idx = 0
    /\ m_log_records = NoRecords
    /\ m_pending_flush_size = 0
    /\ m_is_flushing = FALSE
    /\ m_last_flush_idx = -1
    /\ m_last_crc = INVALID_CRC32_VALUE
    /\ m_block_flush_q = << >>
    /\ inflight = {}
    /\ journal = << >>
    /\ tail_offset = 0
    /\ t_pc = [t \in Threads |-> "idle"]
    /\ t_idx = [t \in Threads |-> 0]
    /\ t_rec = [t \in Threads |-> [store_id |-> 0, seq_num |-> 0, size |-> 0, data |-> 0]]
    /\ lock_held = FALSE
    /\ alloc_hist = << >>
    /\ comp_log = << >>
    /\ found_log = << >>
    /\ dev_at_load = << >>
    /\ last_read = [idx |-> 0, want |-> 0, got |-> [ok |-> TRUE, data |-> 0]]
    /\ cb_run = {}
    /\ n_appends = 0
    /\ n_stops = 0
    /\ n_locks = 0
    /\ n_reads = 0
    /\ n_groups = 0

InitWBVars ==
    /\ reqs = << >>
    /\ node_req = [n \in Nodes |-> [s \in Slots |-> NoReq]]
    /\ node_bcp = [n \in Nodes |-> NoCp]
    /\ m_req_list = [s \in Slots |-> << >>]
    /\ m_dirty_buf_cnt = [s \in Slots |-> 0]
    /\ m_free_list = [s \in Slots |-> << >>]
    /\ m_free_list_cnt = 0
    /\ cp_free_list = [c \in Cps |-> -1]
    /\ cp_phase = [c \in Cps |-> "none"]
    /\ cp_blkalloc = [c \in Cps |-> FALSE]
    /\ flush_it = [c \in Cps |-> 0]
    /\ succ_hist = {}
    /\ cp_comp_log = << >>
    /\ ba_freed = {}
    /\ wb_assert_ok = TRUE
    /\ n_writes = 0
    /\ n_free = 0

InitWB == InitWBVars /\ InitLDVars /\ InitExtVars

NextWB ==
    \/ (PrepareCp(TRUE)) /\ UNCHANGED <<ld_vars, ext_vars, more_vars>>
    \/ (\E bn \in TreeNodes, d \in TreeNodes \cup {NoNode}, c \in Cps : n_writes < MaxWrites /\ Write(bn, d, c)) /\ UNCHANGED <<ld_vars, ext_vars, more_vars>>
    \/ (\E c \in Cps : CpStart(c)) /\ UNCHANGED <<ld_vars, ext_vars, more_vars>>
    \/ (\E c \in Cps : FlushStep(c)) /\ UNCHANGED <<ld_vars, ext_vars, more_vars>>
    \/ (\E c \in Cps : FlushEnd(c)) /\ UNCHANGED <<ld_vars, ext_vars, more_vars>>
    \/ (\E r \in ReqIds : ComplBegin(r)) /\ UNCHANGED <<ld_vars, ext_vars, more_vars>>
    \/ (\E r \in ReqIds : ComplEnd(r)) /\ UNCHANGED <<ld_vars, ext_vars, more_vars>>
    \/ (\E c \in Cps : FlushFreeBlks(c)) /\ UNCHANGED <<ld_vars, ext_vars, more_vars>>

SpecWB == InitWB /\ [][NextWB]_vars

\* The cache with a write() that is still before its link block while the
\* checkpoint it writes into is started
NextWBRace ==
    \/ (PrepareCp(TRUE) /\ UNCHANGED wr_vars) /\ UNCHANGED <<ld_vars, ext_vars, rs_vars, cf_vars, mv_vars, lk_vars, ve_vars, tail_vars>>
    \/ (\E bn \in Nodes, d \in Nodes \cup {NoNode}, c \in Cps : n_writes < MaxWrites /\ WriteBegin(bn, d, c)) /\ UNCHANGED <<ld_vars, ext_vars, rs_vars, cf_vars, mv_vars, lk_vars, ve_vars, tail_vars>>
    \/ (WriteLink) /\ UNCHANGED <<ld_vars, ext_vars, rs_vars, cf_vars, mv_vars, lk_vars, ve_vars, tail_vars>>
    \/ (\E c \in Cps : CpStart(c) /\ UNCHANGED wr_vars) /\ UNCHANGED <<ld_vars, ext_vars, rs_vars, cf_vars, mv_vars, lk_vars, ve_vars, tail_vars>>
    \/ (\E c \in Cps : FlushStep(c) /\ UNCHANGED wr_vars) /\ UNCHANGED <<ld_vars, ext_vars, rs_vars, cf_vars, mv_vars, lk_vars, ve_vars, tail_vars>>
    \/ (\E c \in Cps : FlushEnd(c) /\ UNCHANGED wr_vars) /\ UNCHANGED <<ld_vars, ext_vars, rs_vars, cf_vars, mv_vars, lk_vars, ve_vars, tail_vars>>
    \/ (\E r \in ReqIds : ComplBegin(r) /\ UNCHANGED wr_vars) /\ UNCHANGED <<ld_vars, ext_vars, rs_vars, cf_vars, mv_vars, lk_vars, ve_vars, tail_vars>>
    \/ (\E r \in ReqIds : ComplEnd(r) /\ UNCHANGED wr_vars) /\ UNCHANGED <<ld_vars, ext_vars, rs_vars, cf_vars, mv_vars, lk_vars, ve_vars, tail_vars>>
    \/ (\E c \in Cps : FlushFreeBlks(c) /\ UNCHANGED wr_vars) /\ UNCHANGED <<ld_vars, ext_vars, rs_vars, cf_vars, mv_vars, lk_vars, ve_vars, tail_vars>>

SpecWBRace == InitWB /\ [][NextWBRace]_vars

\* The same cache with free_blk calls and fewer writes
NextWBFree ==
    \/ (\E f \in BOOLEAN : PrepareCp(f)) /\ UNCHANGED <<ld_vars, ext_vars, more_vars>>
    \/ (\E bn \in MemNodes, d \in MemNodes \cup {NoNode}, c \in Cps : n_writes < MaxWritesFree /\ Write(bn, d, c)) /\ UNCHANGED <<ld_vars, ext_vars, more_vars>>
    \/ (\E c \in Cps : n_free < MaxFree /\ FreeBlk(c)) /\ UNCHANGED <<ld_vars, ext_vars, more_vars>>
    \/ (\E c \in Cps : CpStart(c)) /\ UNCHANGED <<ld_vars, ext_vars, more_vars>>
    \/ (\E c \in Cps : FlushStep(c)) /\ UNCHANGED <<ld_vars, ext_vars, more_vars>>
    \/ (\E c \in Cps : FlushEnd(c)) /\ UNCHANGED <<ld_vars, ext_vars, more_vars>>
    \/ (\E r \in ReqIds : ComplBegin(r)) /\ UNCHANGED <<ld_vars, ext_vars, more_vars>>
    \/ (\E r \in ReqIds : ComplEnd(r)) /\ UNCHANGED <<ld_vars, ext_vars, more_vars>>
    \/ (\E c \in Cps : FlushFreeBlks(c)) /\ UNCHANGED <<ld_vars, ext_vars, more_vars>>

SpecWBFree == InitWB /\ [][NextWBFree]_vars

\* The cache with the node buffers: mutations go through refresh_buf
NextWBMem ==
    \/ (PrepareCp(TRUE) /\ UNCHANGED mv_vars) /\ UNCHANGED <<ld_vars, ext_vars, rs_vars, cf_vars, late_vars, tail_vars>>
    \/ (\E bn \in MemNodes, d \in MemNodes \cup {NoNode}, c \in Cps : n_writes < MaxMemWrites /\ NodeUpdate(bn, d, c)) /\ UNCHANGED <<ld_vars, ext_vars, rs_vars, cf_vars, late_vars, tail_vars>>
    \/ (\E bn \in MemNodes, w \in BOOLEAN, c \in Cps \cup {NoCp} : n_refresh < MaxRefresh /\ RefreshBuf(bn, w, c)) /\ UNCHANGED <<ld_vars, ext_vars, rs_vars, cf_vars, late_vars, tail_vars>>
    \/ (\E c \in Cps : CpStart(c) /\ UNCHANGED mv_vars) /\ UNCHANGED <<ld_vars, ext_vars, rs_vars, cf_vars, late_vars, tail_vars>>
    \/ (\E c \in Cps : FlushStep(c) /\ UNCHANGED mv_vars) /\ UNCHANGED <<ld_vars, ext_vars, rs_vars, cf_vars, late_vars, tail_vars>>
    \/ (\E c \in Cps : FlushEnd(c) /\ UNCHANGED mv_vars) /\ UNCHANGED <<ld_vars, ext_vars, rs_vars, cf_vars, late_vars, tail_vars>>
    \/ (\E r \in ReqIds : ComplBegin(r) /\ UNCHANGED mv_vars) /\ UNCHANGED <<ld_vars, ext_vars, rs_vars, cf_vars, late_vars, tail_vars>>
    \/ (\E r \in ReqIds : ComplEnd(r) /\ UNCHANGED mv_vars) /\ UNCHANGED <<ld_vars, ext_vars, rs_vars, cf_vars, late_vars, tail_vars>>
    \/ (\E c \in Cps : FlushFreeBlks(c) /\ UNCHANGED mv_vars) /\ UNCHANGED <<ld_vars, ext_vars, rs_vars, cf_vars, late_vars, tail_vars>>

SpecWBMem == InitWB /\ [][NextWBMem]_vars

InitLD == InitWBVars /\ InitLDVars /\ InitExtVars

\* The running log device: appenders, the timer, flush lockers, completions
NextLD ==
    \/ (StartFormat) /\ UNCHANGED <<wb_vars, ext_vars, more_vars>>
    \/ (\E t \in Threads : n_appends < MaxAppends /\ AppendFetchIdx(t, {OobSize})) /\ UNCHANGED <<wb_vars, ext_vars, more_vars>>
    \/ (\E t \in Threads : AppendCreate(t)) /\ UNCHANGED <<wb_vars, ext_vars, more_vars>>
    \/ (\E t \in Threads : AppendFlushIfNeeded(t)) /\ UNCHANGED <<wb_vars, ext_vars, more_vars>>
    \/ (TimerFlush) /\ UNCHANGED <<wb_vars, ext_vars, more_vars>>
    \/ (\E lg \in inflight : OnFlushCompletion(lg)) /\ UNCHANGED <<wb_vars, ext_vars, more_vars>>
    \/ (n_locks < MaxLocks /\ TryLockFlush) /\ UNCHANGED <<wb_vars, ext_vars, more_vars>>
    \/ (UnlockFlush) /\ UNCHANGED <<wb_vars, ext_vars, more_vars>>

SpecLD == InitLD /\ [][NextLD]_vars

\* The running log device with unlock_flush in its two steps
NextLDLock ==
    \/ (StartFormat /\ UNCHANGED lk_vars) /\ UNCHANGED <<wb_vars, ext_vars, rs_vars, cf_vars, mv_vars, ve_vars, wr_vars, tail_vars>>
    \/ (\E t \in Threads : n_appends < MaxAppends /\ AppendFetchIdx(t, {OobSize}) /\ UNCHANGED lk_vars) /\ UNCHANGED <<wb_vars, ext_vars, rs_vars, cf_vars, mv_vars, ve_vars, wr_vars, tail_vars>>
    \/ (\E t \in Threads : AppendCreate(t) /\ UNCHANGED lk_vars) /\ UNCHANGED <<wb_vars, ext_vars, rs_vars, cf_vars, mv_vars, ve_vars, wr_vars, tail_vars>>
    \/ (\E t \in Threads : AppendFlushIfNeeded(t) /\ UNCHANGED lk_vars) /\ UNCHANGED <<wb_vars, ext_vars, rs_vars, cf_vars, mv_vars, ve_vars, wr_vars, tail_vars>>
    \/ (TimerFlush /\ UNCHANGED lk_vars) /\ UNCHANGED <<wb_vars, ext_vars, rs_vars, cf_vars, mv_vars, ve_vars, wr_vars, tail_vars>>
    \/ (\E lg \in inflight : OnFlushCompletionDrain(lg)) /\ UNCHANGED <<wb_vars, ext_vars, rs_vars, cf_vars, mv_vars, ve_vars, wr_vars, tail_vars>>
    \/ (n_locks < MaxLocks /\ TryLockFlush /\ UNCHANGED lk_vars) /\ UNCHANGED <<wb_vars, ext_vars, rs_vars, cf_vars, mv_vars, ve_vars, wr_vars, tail_vars>>
    \/ (UnlockFlushDrain) /\ UNCHANGED <<wb_vars, ext_vars, rs_vars, cf_vars, mv_vars, ve_vars, wr_vars, tail_vars>>
    \/ (UnlockStore) /\ UNCHANGED <<wb_vars, ext_vars, rs_vars, cf_vars, mv_vars, ve_vars, wr_vars, tail_vars>>

SpecLDLock == InitLD /\ [][NextLDLock]_vars

\* One request with the threads that report io errors on it
NextVolReq ==
    \/ (\E c \in SeCallers, ec \in ErrCodes : n_set_errors < MaxSetErrors /\ SetErrorCas(c, ec)) /\ UNCHANGED <<wb_vars, ld_vars, ext_vars, rs_vars, cf_vars, mv_vars, lk_vars, wr_vars, tail_vars>>
    \/ (\E c \in SeCallers : SetErrorStore(c)) /\ UNCHANGED <<wb_vars, ld_vars, ext_vars, rs_vars, cf_vars, mv_vars, lk_vars, wr_vars, tail_vars>>
    \/ (n_inits < MaxInits /\ VolReqInit) /\ UNCHANGED <<wb_vars, ld_vars, ext_vars, rs_vars, cf_vars, mv_vars, lk_vars, wr_vars, tail_vars>>

SpecVolReq == InitLD /\ [][NextVolReq]_vars

\* The running log device with readers
NextLDRead ==
    \/ (StartFormat) /\ UNCHANGED <<wb_vars, ext_vars, more_vars>>
    \/ (\E t \in Threads : n_appends < MaxAppends /\ AppendFetchIdx(t, Sizes)) /\ UNCHANGED <<wb_vars, ext_vars, more_vars>>
    \/ (\E t \in Threads : AppendCreate(t)) /\ UNCHANGED <<wb_vars, ext_vars, more_vars>>
    \/ (\E t \in Threads : AppendFlushIfNeeded(t)) /\ UNCHANGED <<wb_vars, ext_vars, more_vars>>
    \/ (TimerFlush) /\ UNCHANGED <<wb_vars, ext_vars, more_vars>>
    \/ (\E lg \in inflight : OnFlushCompletion(lg)) /\ UNCHANGED <<wb_vars, ext_vars, more_vars>>
    \/ (\E e \in 1..Len(comp_log) : n_reads < MaxReads /\ Read(e)) /\ UNCHANGED <<wb_vars, ext_vars, more_vars>>

SpecLDRead == InitLD /\ [][NextLDRead]_vars

\* The log device used by one appending thread, over more restarts
NextLDSeq ==
    \/ (StartFormat) /\ UNCHANGED <<wb_vars, ext_vars, more_vars>>
    \/ (n_appends < MaxAppends /\ AppendFetchIdx("t1", Sizes)) /\ UNCHANGED <<wb_vars, ext_vars, more_vars>>
    \/ (AppendCreate("t1")) /\ UNCHANGED <<wb_vars, ext_vars, more_vars>>
    \/ (AppendFlushIfNeeded("t1")) /\ UNCHANGED <<wb_vars, ext_vars, more_vars>>
    \/ (TimerFlush) /\ UNCHANGED <<wb_vars, ext_vars, more_vars>>
    \/ (\E lg \in inflight : OnFlushCompletion(lg)) /\ UNCHANGED <<wb_vars, ext_vars, more_vars>>
    \/ (n_stops < MaxStops /\ Stop) /\ UNCHANGED <<wb_vars, ext_vars, more_vars>>
    \/ (StartLoad) /\ UNCHANGED <<wb_vars, ext_vars, more_vars>>

SpecLDSeq == InitLD /\ [][NextLDSeq]_vars

\* The log device of one appending thread with rollback() calls
NextLDRollback ==
    \/ (StartFormat) /\ UNCHANGED <<wb_vars, ext_vars, more_vars>>
    \/ (n_appends < MaxAppends /\ AppendFetchIdx("t1", {InlineSize})) /\ UNCHANGED <<wb_vars, ext_vars, more_vars>>
    \/ (AppendCreate("t1")) /\ UNCHANGED <<wb_vars, ext_vars, more_vars>>
    \/ (AppendFlushIfNeeded("t1")) /\ UNCHANGED <<wb_vars, ext_vars, more_vars>>
    \/ (TimerFlush) /\ UNCHANGED <<wb_vars, ext_vars, more_vars>>
    \/ (\E lg \in inflight : OnFlushCompletion(lg)) /\ UNCHANGED <<wb_vars, ext_vars, more_vars>>
    \/ (n_stops < MaxStops /\ Stop) /\ UNCHANGED <<wb_vars, ext_vars, more_vars>>
    \/ (StartLoad) /\ UNCHANGED <<wb_vars, ext_vars, more_vars>>
    \/ (\E sid \in {StoreOf(1), StoreOf(2)}, r \in RollbackRanges :
            n_rollbacks < MaxRollbacks /\ Rollback(sid, r)) /\ UNCHANGED <<wb_vars, ld_vars, io_vars, st_vars, ab_vars, more_vars>>

SpecLDRollback == InitLD /\ [][NextLDRollback]_vars

\* The log device on a device that may fail a write
NextLDFail ==
    \/ (StartFormat) /\ UNCHANGED <<wb_vars, ext_vars, more_vars>>
    \/ (n_appends < MaxAppends /\ AppendFetchIdx("t1", Sizes)) /\ UNCHANGED <<wb_vars, ext_vars, more_vars>>
    \/ (AppendCreate("t1")) /\ UNCHANGED <<wb_vars, ext_vars, more_vars>>
    \/ (AppendFlushIfNeeded("t1")) /\ UNCHANGED <<wb_vars, ext_vars, more_vars>>
    \/ (TimerFlush) /\ UNCHANGED <<wb_vars, ext_vars, more_vars>>
    \/ (\E lg \in inflight : OnFlushCompletion(lg)) /\ UNCHANGED <<wb_vars, ext_vars, more_vars>>
    \/ (\E lg \in inflight : OnFlushFailure(lg)) /\ UNCHANGED <<wb_vars, md_vars, st_vars, ab_vars, more_vars>>

SpecLDFail == InitLD /\ [][NextLDFail]_vars

\* The log device with stop() called at any time and appends after it
NextLDStop ==
    \/ (StartFormat) /\ UNCHANGED <<wb_vars, ext_vars, more_vars>>
    \/ (n_appends < MaxAppends /\ AppendFetchIdx("t1", Sizes)) /\ UNCHANGED <<wb_vars, ext_vars, more_vars>>
    \/ (AppendCreate("t1")) /\ UNCHANGED <<wb_vars, ext_vars, more_vars>>
    \/ (AppendFlushIfNeeded("t1")) /\ UNCHANGED <<wb_vars, ext_vars, more_vars>>
    \/ (TimerFlush) /\ UNCHANGED <<wb_vars, ext_vars, more_vars>>
    \/ (\E lg \in inflight : OnFlushCompletion(lg)) /\ UNCHANGED <<wb_vars, ext_vars, more_vars>>
    \/ (n_stops < MaxStops /\ Stop) /\ UNCHANGED <<wb_vars, ext_vars, more_vars>>
    \/ (n_stops < MaxStops /\ StopBusy) /\ UNCHANGED <<wb_vars, md_vars, io_vars, ab_vars, more_vars>>
    \/ (n_appends < MaxAppends /\ AppendAfterStop("t1")) /\ UNCHANGED <<wb_vars, md_vars, io_vars, ab_vars, more_vars>>

SpecLDStop == InitLD /\ [][NextLDStop]_vars

\* The log device of one appending thread whose process may end in the middle
\* of a group write
NextLDTorn ==
    \/ (StartFormat) /\ UNCHANGED <<wb_vars, ext_vars, more_vars>>
    \/ (n_appends < MaxAppends /\ AppendFetchIdx("t1", {InlineSize})) /\ UNCHANGED <<wb_vars, ext_vars, more_vars>>
    \/ (AppendCreate("t1")) /\ UNCHANGED <<wb_vars, ext_vars, more_vars>>
    \/ (AppendFlushIfNeeded("t1")) /\ UNCHANGED <<wb_vars, ext_vars, more_vars>>
    \/ (TimerFlush) /\ UNCHANGED <<wb_vars, ext_vars, more_vars>>
    \/ (\E lg \in inflight : OnFlushCompletion(lg)) /\ UNCHANGED <<wb_vars, ext_vars, more_vars>>
    \/ (n_stops < MaxStops /\ Stop) /\ UNCHANGED <<wb_vars, ext_vars, more_vars>>
    \/ (\E lg \in inflight, kind \in {"payload", "header"} : n_stops < MaxStops /\ TornWrite(lg, kind)) /\ UNCHANGED <<wb_vars, ext_vars, more_vars>>
    \/ (StartLoad) /\ UNCHANGED <<wb_vars, ext_vars, more_vars>>

SpecLDTorn == InitLD /\ [][NextLDTorn]_vars

\* The running log device of one appending thread under fair scheduling: the
\* thread finishes the append_async it began, the device completes every
\* group it was given, and the recurring timer of start() fires again after
\* max_time_between_flush_us
LiveAppendCreate == (AppendCreate("t1")) /\ UNCHANGED <<wb_vars, ext_vars, more_vars>>
LiveAppendFlush == (AppendFlushIfNeeded("t1")) /\ UNCHANGED <<wb_vars, ext_vars, more_vars>>
LiveTimer == (TimerFlush) /\ UNCHANGED <<wb_vars, ext_vars, more_vars>>
LiveCompletion == (\E lg \in inflight : OnFlushCompletion(lg)) /\ UNCHANGED <<wb_vars, ext_vars, more_vars>>

NextLDLive ==
    \/ (StartFormat) /\ UNCHANGED <<wb_vars, ext_vars, more_vars>>
    \/ (n_appends < MaxAppends /\ AppendFetchIdx("t1", {InlineSize})) /\ UNCHANGED <<wb_vars, ext_vars, more_vars>>
    \/ LiveAppendCreate
    \/ LiveAppendFlush
    \/ LiveTimer
    \/ LiveCompletion

FairLDLive ==
    /\ WF_vars(LiveAppendCreate)
    /\ WF_vars(LiveAppendFlush)
    /\ WF_vars(LiveTimer)
    /\ WF_vars(LiveCompletion)

SpecLDLive == InitLD /\ [][NextLDLive]_vars /\ FairLDLive

(***************************************************************************)
(* Part X : single calls                                                   *)
(***************************************************************************)

\* every object as constructed, and one call about to be made
InitCall(calls) ==
    /\ InitWBVars /\ InitLDVars
    /\ InitMDVars /\ InitIOVars /\ InitSTVars /\ InitABVars
    /\ InitRSVars /\ InitCFVars /\ InitMVVars /\ InitLateVars /\ InitVDVars
    /\ call \in calls
    /\ ret = NoRet

\* ---- flush_if_needed ------------------------------------------------------
\* values of m_pending_flush_size a call can find: below zero after a flush
\* took a record whose size was not added yet, and up to the threshold
PendingSizes == {0 - InlineSize, 0, InlineSize, OobSize + InlineSize, flush_data_threshold_size}

\* new_record_size: 0 from the timer and unlock_flush, a payload size from append_async
SizeHints == {0} \cup Sizes

\* the tracker when the call is made: one record waits to be flushed
OneRecord == [i \in {0} |-> [store_id |-> 1, seq_num |-> 1, size |-> InlineSize, data |-> 1]]

FlushIfNeededCalls ==
    [fn : {"flush_if_needed"}, new_record_size : SizeHints, pending : PendingSizes,
     elapsed : BOOLEAN, is_flushing : BOOLEAN]

\* flush_if_needed(new_record_size, new_idx) on a LogDev with these fields
FlushIfNeededCall ==
    /\ call.fn = "flush_if_needed"
    /\ ret = NoRet
    /\ LET r == flush_if_needed(call.new_record_size, IF call.new_record_size = 0 THEN -1 ELSE 0,
                                 call.elapsed, call.pending, call.is_flushing, 1, OneRecord,
                                 -1, INVALID_CRC32_VALUE, 0, 1)
       IN  ret' = [fn |-> "flush_if_needed", pending |-> r.pending, is_flushing |-> r.is_flushing,
                   flushed |-> r.n = 1,
                   actual_data_size |-> IF r.n = 1 THEN (CHOOSE lg \in r.groups : TRUE).m_actual_data_size ELSE 0]
    /\ UNCHANGED call

NextFlushIf ==
    \/ (FlushIfNeededCall) /\ UNCHANGED <<wb_vars, ld_vars, ext_vars, rs_vars, cf_vars, mv_vars, late_vars, vd_vars>>

SpecFlushIf == InitCall(FlushIfNeededCalls) /\ [][NextFlushIf]_vars

\* ---- log_record::is_inlineable ---------------------------------------------
\* payload sizes around optimal_inline_data_size and the sizes the appends use
PayloadSizes ==
    {1, OptimalInlineDataSize - 1, OptimalInlineDataSize, OptimalInlineDataSize + 1,
     2 * OptimalInlineDataSize, 2 * OptimalInlineDataSize + 1} \cup Sizes

\* payload addresses: on the dma boundary and off it
PayloadAddrs == {0, 8, dma_address_boundary, 8 * dma_address_boundary}

IsInlineableCalls ==
    [fn : {"is_inlineable"}, size : PayloadSizes, addr : PayloadAddrs, aligned : BOOLEAN]

IsInlineableCall ==
    /\ call.fn = "is_inlineable"
    /\ ret = NoRet
    /\ ret' = [fn |-> "is_inlineable",
               inlined |-> is_inlineable(call.size, call.addr, call.aligned)]
    /\ UNCHANGED call

NextInline ==
    \/ (IsInlineableCall) /\ UNCHANGED <<wb_vars, ld_vars, ext_vars, rs_vars, cf_vars, mv_vars, late_vars, vd_vars>>

SpecInline == InitCall(IsInlineableCalls) /\ [][NextInline]_vars

\* ---- log_group_header::data -----------------------------------------------
\* uint32_t arithmetic wraps (width scaled down)
Uint32Modulus == 65536

\* header.inline_data_offset: where the inlined area of a group made for
\* max_records slots starts
inline_data_offset(max_records) == make_log_group(max_records).m_inline_data_pos

\* log_group_header::data(idx): the slot nth_record is asked for, and the
\* place and size of the blob it returns, or a fault. A slot outside the
\* record area is a read of memory that is not the group's: stray is what
\* is found there, a serialized_log_record of any content or no memory
data(header, inline_offset, idx, stray) ==
    LET n == (header.start_log_idx - idx) % Uint32Modulus
        inside == n < Len(header.slots)
        lr == IF inside THEN header.slots[n + 1] ELSE stray
    IN  IF idx < header.start_log_idx \/ ~(idx - header.start_log_idx < header.n_log_records)
        THEN [fn |-> "data", n |-> n, fault |-> TRUE, offset |-> 0, size |-> 0]
        ELSE IF ~inside /\ stray.fault
        THEN [fn |-> "data", n |-> n, fault |-> TRUE, offset |-> 0, size |-> 0]
        ELSE [fn |-> "data", n |-> n, fault |-> FALSE,
              offset |-> IF lr.is_inlined THEN inline_offset
                         ELSE header.oob_data_offset + lr.offset,
              size |-> lr.size]

\* the sizes of the records of a group of one to three records
GroupSizes == UNION {[1..k -> Sizes] : k \in 1..3}

\* the group prepare_flush builds of records of these sizes from index start on
GroupOf(sizes, start) ==
    prepare_flush(Len(sizes) + 4,
                  [i \in start..(start + Len(sizes) - 1) |->
                      [store_id |-> 1, seq_num |-> i + 1, size |-> sizes[i - start + 1], data |-> i + 1]],
                  start - 1, INVALID_CRC32_VALUE, 0, 1)

\* what a read outside the record area can meet
StraySlots ==
    {[fault |-> TRUE, is_inlined |-> FALSE, offset |-> 0, size |-> 0]}
    \cup {[fault |-> FALSE, is_inlined |-> inl, offset |-> off, size |-> sz] :
              inl \in BOOLEAN, off \in {0, InlineSize}, sz \in {0, InlineSize}}

DataCalls ==
    UNION {{[fn |-> "data", header |-> GroupOf(sizes, start),
             inline_data_offset |-> inline_data_offset(Len(sizes) + 4),
             idx |-> idx, stray |-> stray] :
               idx \in start..(start + Len(sizes) - 1), stray \in StraySlots} :
           sizes \in GroupSizes, start \in {0, 1}}

DataCall ==
    /\ call.fn = "data"
    /\ ret = NoRet
    /\ ret' = data(call.header, call.inline_data_offset, call.idx, call.stray)
    /\ UNCHANGED call

NextData ==
    \/ (DataCall) /\ UNCHANGED <<wb_vars, ld_vars, ext_vars, rs_vars, cf_vars, mv_vars, late_vars, vd_vars>>

SpecData == InitCall(DataCalls) /\ [][NextData]_vars

\* ---- VirtualDev::alloc_blk ------------------------------------------------
NextVD ==
    \/ (\E n \in VdSizes, can_look, keep \in BOOLEAN : VdAllocBlk(n, can_look, keep)) /\ UNCHANGED <<wb_vars, ld_vars, ext_vars, rs_vars, cf_vars, mv_vars, late_vars, fn_vars>>
    \/ (VdNextPart) /\ UNCHANGED <<wb_vars, ld_vars, ext_vars, rs_vars, cf_vars, mv_vars, late_vars, fn_vars>>
    \/ (\E chunk \in VdChunks : VdTryChunk(chunk)) /\ UNCHANGED <<wb_vars, ld_vars, ext_vars, rs_vars, cf_vars, mv_vars, late_vars, fn_vars>>

InitVD == InitWBVars /\ InitLDVars /\ InitExtVars

SpecVD == InitVD /\ [][NextVD]_vars

\* the thread inside alloc_blk keeps running
LiveVdNextPart == (VdNextPart) /\ UNCHANGED <<wb_vars, ld_vars, ext_vars, rs_vars, cf_vars, mv_vars, late_vars, fn_vars>>
LiveVdTryChunk == (\E chunk \in VdChunks : VdTryChunk(chunk)) /\ UNCHANGED <<wb_vars, ld_vars, ext_vars, rs_vars, cf_vars, mv_vars, late_vars, fn_vars>>

FairVD == WF_vars(LiveVdNextPart) /\ WF_vars(LiveVdTryChunk)

SpecVDLive == InitVD /\ [][NextVD]_vars /\ FairVD

\* the allocator of one chunk with its one writer, checkpoints and restarts
InitABA == InitWBVars /\ InitLDVars /\ InitExtVars

NextABA ==
    \/ (n_allocs < MaxAllocs /\ \E n \in AllocSizes, h \in AllocHints : Alloc(n, h)) /\ UNCHANGED <<wb_vars, ld_vars, md_vars, io_vars, st_vars, more_vars>>
    \/ (\E bid \in Issued \cup journal_bids : ReserveOnDisk(bid)) /\ UNCHANGED <<wb_vars, ld_vars, md_vars, io_vars, st_vars, more_vars>>
    \/ (\E bid \in journal_bids : ReserveOnCache(bid)) /\ UNCHANGED <<wb_vars, ld_vars, md_vars, io_vars, st_vars, more_vars>>
    \/ (RecoveryDone) /\ UNCHANGED <<wb_vars, ld_vars, md_vars, io_vars, st_vars, more_vars>>
    \/ (CpFlush) /\ UNCHANGED <<wb_vars, ld_vars, md_vars, io_vars, st_vars, more_vars>>
    \/ (n_ab_frees < MaxAbFrees /\ \E bid \in Issued : AbFree(bid)) /\ UNCHANGED <<wb_vars, ld_vars, md_vars, io_vars, st_vars, more_vars>>
    \/ (n_resets < MaxResets /\ AbReset) /\ UNCHANGED <<wb_vars, ld_vars, md_vars, io_vars, st_vars, more_vars>>
    \/ (n_reboots < MaxReboots /\ AbReboot) /\ UNCHANGED <<wb_vars, ld_vars, md_vars, io_vars, st_vars, more_vars>>

SpecABA == InitABA /\ [][NextABA]_vars

\* the allocator called by several threads at once
NextABAConc ==
    \/ (n_allocs < MaxConcAllocs /\ \E c \in AbCallers, n \in AllocSizes, h \in AllocHints : AllocCheck(c, n, h)) /\ UNCHANGED <<wb_vars, ld_vars, md_vars, io_vars, st_vars, more_vars>>
    \/ (\E c \in AbCallers : AllocFetchAdd(c)) /\ UNCHANGED <<wb_vars, ld_vars, md_vars, io_vars, st_vars, more_vars>>
    \/ (\E bid \in Issued : ReserveOnDisk(bid)) /\ UNCHANGED <<wb_vars, ld_vars, md_vars, io_vars, st_vars, more_vars>>
    \/ (CpFlush) /\ UNCHANGED <<wb_vars, ld_vars, md_vars, io_vars, st_vars, more_vars>>
    \/ (n_resets < MaxResets /\ AbReset) /\ UNCHANGED <<wb_vars, ld_vars, md_vars, io_vars, st_vars, more_vars>>

SpecABAConc == InitABA /\ [][NextABAConc]_vars

\* the allocator with reserve calls of two threads interleaved
NextABARes ==
    \/ (n_allocs < MaxAllocs /\ \E n \in 1..MaxBlksPerBlkid : Alloc(n, NoHint) /\ UNCHANGED rs_vars) /\ UNCHANGED <<wb_vars, ld_vars, md_vars, io_vars, st_vars, cf_vars, mv_vars, late_vars, tail_vars>>
    \/ (n_reserves < MaxReserves /\ \E c \in ResCallers, bid \in Issued \cup cache_reserved : ReserveBegin(c, "disk", bid)) /\ UNCHANGED <<wb_vars, ld_vars, md_vars, io_vars, st_vars, cf_vars, mv_vars, late_vars, tail_vars>>
    \/ (n_reserves < MaxReserves /\ \E c \in ResCallers, bid \in journal_bids : ReserveBegin(c, "cache", bid)) /\ UNCHANGED <<wb_vars, ld_vars, md_vars, io_vars, st_vars, cf_vars, mv_vars, late_vars, tail_vars>>
    \/ (\E c \in ResCallers : ReserveLoop(c)) /\ UNCHANGED <<wb_vars, ld_vars, md_vars, io_vars, st_vars, cf_vars, mv_vars, late_vars, tail_vars>>
    \/ (\E c \in ResCallers : ReserveEnd(c)) /\ UNCHANGED <<wb_vars, ld_vars, md_vars, io_vars, st_vars, cf_vars, mv_vars, late_vars, tail_vars>>
    \/ (CpFlush /\ UNCHANGED rs_vars) /\ UNCHANGED <<wb_vars, ld_vars, md_vars, io_vars, st_vars, cf_vars, mv_vars, late_vars, tail_vars>>
    \/ (n_resets < MaxResets /\ AbResetRes) /\ UNCHANGED <<wb_vars, ld_vars, md_vars, io_vars, st_vars, cf_vars, mv_vars, late_vars, tail_vars>>
    \/ (n_reboots < MaxReboots /\ AbRebootRes) /\ UNCHANGED <<wb_vars, ld_vars, md_vars, io_vars, st_vars, cf_vars, mv_vars, late_vars, tail_vars>>
    \/ (RecoveryDoneRes) /\ UNCHANGED <<wb_vars, ld_vars, md_vars, io_vars, st_vars, cf_vars, mv_vars, late_vars, tail_vars>>

SpecABARes == InitABA /\ [][NextABARes]_vars

\* the allocator of one writer with every cp_flush call counted
NextABACp ==
    \/ (n_allocs < MaxAllocs /\ \E n \in 1..MaxBlksPerBlkid : Alloc(n, NoHint) /\ UNCHANGED cf_vars) /\ UNCHANGED <<wb_vars, ld_vars, md_vars, io_vars, st_vars, rs_vars, mv_vars, late_vars, tail_vars>>
    \/ (\E bid \in Issued : ReserveOnDisk(bid) /\ UNCHANGED cf_vars) /\ UNCHANGED <<wb_vars, ld_vars, md_vars, io_vars, st_vars, rs_vars, mv_vars, late_vars, tail_vars>>
    \/ (n_cp_flushes < MaxCpFlushes /\ CpFlushAny) /\ UNCHANGED <<wb_vars, ld_vars, md_vars, io_vars, st_vars, rs_vars, mv_vars, late_vars, tail_vars>>
    \/ (n_ab_frees < MaxAbFrees /\ \E bid \in Issued : AbFree(bid) /\ UNCHANGED cf_vars) /\ UNCHANGED <<wb_vars, ld_vars, md_vars, io_vars, st_vars, rs_vars, mv_vars, late_vars, tail_vars>>
    \/ (n_resets < MaxResets /\ AbReset /\ UNCHANGED cf_vars) /\ UNCHANGED <<wb_vars, ld_vars, md_vars, io_vars, st_vars, rs_vars, mv_vars, late_vars, tail_vars>>

SpecABACp == InitABA /\ [][NextABACp]_vars

(***************************************************************************)
(* Part I : properties                                                     *)
(***************************************************************************)

C4_FreeAfterCallback ==
    \A e \in ba_freed : e.done

\* a block freed under one checkpoint was handed over with a later one
C4_Witness ==
    \E e \in ba_freed : e.with # e.cp

(***************************************************************************)
(* Part II : properties                                                    *)
(***************************************************************************)

\* C5: the log indexes that append_async hands out are strictly increasing and
\* never repeated over the whole life of the device, across concurrent appends
\* and across stop followed by start(format = false).
C5_IndexesIncrease ==
    \A i \in 1..Len(alloc_hist), j \in 1..Len(alloc_hist) :
        i < j => alloc_hist[i] < alloc_hist[j]

\* C6: at most one log group is between prepare_flush and on_flush_completion,
\* whatever the interleaving of append_async, the timer's flush_if_needed,
\* try_lock_flush and completions; the groups are on the device in the order
\* in which they were prepared.
C6_OneGroupInFlight ==
    /\ Cardinality(inflight) <= 1
    /\ \A i \in 1..Len(journal), j \in 1..Len(journal) :
            i < j => journal[i].gno < journal[j].gno

\* a group is with the device while an append is under way and a
\* try_lock_flush caller waits, after an earlier group completed
C6_Witness ==
    /\ Cardinality(inflight) = 1
    /\ Len(journal) > 0
    /\ Len(m_block_flush_q) > 0
    /\ \E t \in Threads : t_pc[t] = "created"

\* C7: of two consecutive groups on the device the later one's prev_grp_crc
\* is the earlier one's cur_grp_crc, after any appends, flushes and
\* stop/recover cycles; the first group after format has prev_grp_crc = 0.
C7_CrcChain ==
    /\ Len(journal) > 0 => journal[1].prev_grp_crc = 0
    /\ \A k \in 2..Len(journal) : journal[k].prev_grp_crc = journal[k - 1].cur_grp_crc

\* C8: read(key), for a key that a completion callback carried, returns the
\* payload appended for that log index.
C8_ReadReturnsPayload ==
    n_reads > 0 => (last_read.got.ok /\ last_read.got.data = last_read.want)

\* C9: the completion of a group [from..upto] calls the append callback once
\* per index, ascending, with nremaining = upto - idx and the group's device
\* offset, and no index gets a callback twice over the run.
C9_CallbackPerIndex ==
    /\ \A i \in 1..Len(comp_log), j \in 1..Len(comp_log) :
            i # j => comp_log[i].idx # comp_log[j].idx
    /\ \A i \in 1..Len(comp_log) :
            /\ comp_log[i].nremaining = comp_log[i].flush_idx - comp_log[i].idx
            /\ comp_log[i].nremaining >= 0
            /\ IF i < Len(comp_log) /\ comp_log[i + 1].gno = comp_log[i].gno
               THEN /\ comp_log[i + 1].idx = comp_log[i].idx + 1
                    /\ comp_log[i + 1].dev_offset = comp_log[i].dev_offset
               ELSE comp_log[i].nremaining = 0 \/ ld_state = "aborted"
            /\ \A j \in 1..Len(comp_log) :
                   (j > i + 1 /\ comp_log[j].gno = comp_log[i].gno)
                       => comp_log[j - 1].gno = comp_log[i].gno

\* C10: start(format = false) calls the logfound callback once for each
\* record of every group on the device, in ascending log index order, with
\* the store id, sequence number and payload that were appended.
C10_RecoveryFindsAll ==
    /\ found_log = dev_at_load
    /\ \A i \in 1..Len(found_log), j \in 1..Len(found_log) :
            i < j => found_log[i].idx < found_log[j].idx

\* C11: start(format = false) over a journal whose last valid record has index
\* n - 1 leaves m_log_idx = n and m_last_flush_idx = n - 1, so that the first
\* flush after recovery starts at index n.
C11_RecoveredIndexes ==
    [][(ld_state = "down" /\ ld_state' = "up" /\ found_log' # << >>) =>
          \E i \in 1..Len(found_log') :
              /\ \A j \in 1..Len(found_log') : found_log'[j].idx <= found_log'[i].idx
              /\ m_log_idx' = found_log'[i].idx + 1
              /\ m_last_flush_idx' = found_log'[i].idx]_vars

\* C12: after rollback(stream_id, (lo, hi)) returned true, a recovery does not
\* hand to the logfound callback any record of that stream with
\* lo <= log_idx <= hi, and hands over every other record on the device.
C12_RollbackSkipped ==
    [][(ld_state = "down" /\ ld_state' = "up") =>
          /\ \A i \in 1..Len(found_log') :
                 ~is_rolled_back(m_rollback_sb, found_log'[i].store_id, found_log'[i].idx)
          /\ \A k \in 1..Len(dev_at_load') :
                 ~is_rolled_back(m_rollback_sb, dev_at_load'[k].store_id, dev_at_load'[k].idx)
                     => \E i \in 1..Len(found_log') : found_log'[i] = dev_at_load'[k]]_vars

\* C13: rollback(sid, range) called twice with the same arguments leaves one
\* durable rollback record for (sid, range).
C13_RollbackIdempotent ==
    \A i \in 1..Len(m_rollback_sb), j \in 1..Len(m_rollback_sb) :
        i # j => m_rollback_sb[i] # m_rollback_sb[j]

\* C14: when the device fails the write of a log group, the records of the
\* group are not completed and handling the failure does not advance
\* m_last_flush_idx past them, so that a later flush can take them again.
C14_FailedFlushNotCompleted ==
    \A f \in flush_failed :
        f.from <= f.upto => f.last_flush_idx < f.from

\* C15: once stop() has begun no append gets a log index, and stop() resets
\* the state of the log device only when nothing is pending and no flush is
\* in flight.
C15_StopDrains ==
    /\ alloc_after_stop = {}
    /\ \A h \in stop_hist :
           h.reset => (h.pending = 0 /\ ~h.is_flushing /\ h.inflight = 0 /\ ~h.appending)


C17_AllocErrors ==
    LET avail == TotalBlks - last_alloc.pre[1]
        reduced == IF last_alloc.hint = NoHint THEN avail
                   ELSE IF avail > last_alloc.hint THEN avail - last_alloc.hint ELSE 0
    IN  last_alloc.status # "NONE" =>
        /\ reduced < last_alloc.nblks
              => last_alloc.status = "SPACE_FULL"
        /\ (reduced >= last_alloc.nblks
               /\ last_alloc.nblks > MaxBlksPerBlkid)
              => last_alloc.status = "FAILED"
        /\ last_alloc.status \in {"SPACE_FULL", "FAILED"}
              => (last_alloc.post = last_alloc.pre /\ last_alloc.bid = NoBid)

\* a call that fails on the size limit with offsets above 0 and the flag set
C17_Witness ==
    /\ last_alloc.status = "FAILED"
    /\ last_alloc.pre[1] > 0
    /\ last_alloc.pre[4]

\* C17 as stated: FAILED whenever n > max_blks_per_blkid, whatever the space
C17_FailedWheneverTooLarge ==
    LET avail == TotalBlks - last_alloc.pre[1]
        reduced == IF last_alloc.hint = NoHint THEN avail
                   ELSE IF avail > last_alloc.hint THEN avail - last_alloc.hint ELSE 0
    IN  last_alloc.status # "NONE" =>
        /\ reduced < last_alloc.nblks
              => last_alloc.status = "SPACE_FULL"
        /\ last_alloc.nblks > MaxBlksPerBlkid => last_alloc.status = "FAILED"
        /\ last_alloc.status \in {"SPACE_FULL", "FAILED"}
              => (last_alloc.post = last_alloc.pre /\ last_alloc.bid = NoBid)

C19_RecoveredOffsets ==
    [][n_reboots' = n_reboots + 1 =>
          /\ m_last_append_offset' = sb_disk.commit_offset
          /\ m_commit_offset' = sb_disk.commit_offset
          /\ m_freeable_nblks' = sb_disk.freeable_nblks
          /\ \A o \in 0..TotalBlks :
                 o < sb_disk.commit_offset => is_blk_alloced_on_disk(o, m_sb')]_vars

\* just after a restart that forgot an allocation behind the stored offset
C19_Witness ==
    /\ n_reboots > 0
    /\ ab_recovering
    /\ cache_reserved = {}
    /\ sb_disk.commit_offset > 0
    /\ m_last_append_offset = sb_disk.commit_offset
    /\ \E bid \in journal_bids : bid.blk_num >= sb_disk.commit_offset

\* C19 as stated: the offset equal to the stored commit_offset included
C19_RecoveredOffsetsInclusive ==
    [][n_reboots' = n_reboots + 1 =>
          /\ m_last_append_offset' = sb_disk.commit_offset
          /\ m_commit_offset' = sb_disk.commit_offset
          /\ m_freeable_nblks' = sb_disk.freeable_nblks
          /\ \A o \in 0..TotalBlks :
                 o <= sb_disk.commit_offset => is_blk_alloced_on_disk(o, m_sb')]_vars

\* C20: in every reachable state is_blk_alloced_on_disk(bid) is true exactly
\* when bid's offset is below commit_offset, the allocator's current disk
\* offset as reserve_on_disk raised it, also before the next cp_flush.
C20_OnDiskMatchesCommit ==
    \A o \in 0..TotalBlks : is_blk_alloced_on_disk(o, m_sb) <=> o < m_commit_offset

\* C21: reserve_on_disk(bid) leaves commit_offset at max(commit_offset,
\* bid.offset + bid.n) and sets the dirty flag exactly when it raised
\* commit_offset; with calls of several threads interleaved commit_offset
\* never decreases and, once no call is under way, is the maximum of its
\* value at the start and all requested ends; reserve_on_cache does the same
\* for last_append_offset and touches neither commit_offset nor the flag.
C21_ReserveRatchet ==
    [][(n_reboots' = n_reboots /\ n_resets' = n_resets) =>
          /\ m_commit_offset' >= m_commit_offset
          /\ m_commit_offset' <= disk_max'
          /\ (\A c \in ResCallers : r_pc'[c].kind # "disk") => m_commit_offset' = disk_max'
          /\ (ab_recovering' /\ \A c \in ResCallers : r_pc'[c].kind # "cache")
                => m_last_append_offset' = cache_max'
          /\ \A c \in ResCallers :
                /\ (r_pc[c].kind = "disk" /\ r_pc[c].pc = "after" /\ r_pc'[c].pc = "idle")
                      => /\ m_commit_offset' >= r_pc[c].new_offset
                         /\ m_is_dirty' = IF r_pc[c].raised THEN TRUE ELSE m_is_dirty
                /\ (r_pc'[c] # r_pc[c] /\ (r_pc[c].kind = "cache" \/ r_pc'[c].kind = "cache"))
                      => /\ m_commit_offset' = m_commit_offset
                         /\ m_is_dirty' = m_is_dirty
                         /\ m_last_append_offset' >= m_last_append_offset
                         /\ r_pc'[c].pc = "idle" => m_last_append_offset' >= r_pc[c].new_offset]_vars

\* a reserve_on_disk that lost a compare-exchange to another call and then
\* raised commit_offset itself
C21_Witness ==
    \E c \in ResCallers : r_pc[c].kind = "disk" /\ r_pc[c].retries > 0 /\ r_pc[c].raised

\* C22: cp_flush writes the superblock exactly when the dirty flag is set,
\* with the current commit_offset and freeable_blks in it, and clears the
\* flag; with the flag clear it writes nothing and changes nothing; it never
\* changes last_append_offset, commit_offset or freeable_blks.
C22_CpFlush ==
    [][n_cp_flushes' = n_cp_flushes + 1 =>
          /\ m_is_dirty =>
                /\ sb_disk' = [written |-> TRUE, commit_offset |-> m_commit_offset,
                               freeable_nblks |-> m_freeable_nblks]
                /\ m_sb' = [commit_offset |-> m_commit_offset, freeable_nblks |-> m_freeable_nblks]
                /\ ~m_is_dirty'
          /\ ~m_is_dirty => UNCHANGED ab_vars
          /\ UNCHANGED <<m_last_append_offset, m_commit_offset, m_freeable_nblks>>]_vars

\* after three cp_flush calls the flag is clear and the superblock on the
\* device holds a raised commit_offset and freed blocks
C22_Witness ==
    /\ n_cp_flushes >= 3
    /\ ~m_is_dirty
    /\ sb_disk.written
    /\ sb_disk.commit_offset > 0
    /\ sb_disk.freeable_nblks > 0

\* C23: refresh_buf(node, writeable, cp) returns cp_mismatch whenever the
\* node's last-writer checkpoint id is greater than cp's, for read and for
\* write access, and then leaves the node's buffer and the requests as they
\* were; it returns success when the ids are equal or the node's is smaller.
C23_RefreshStatus ==
    [][/\ last_refresh'.order = "newer" => last_refresh'.status = "cp_mismatch"
       /\ last_refresh'.order \in {"equal", "older"} => last_refresh'.status = "success"
       /\ (n_refresh' # n_refresh /\ last_refresh'.status = "cp_mismatch")
             => UNCHANGED <<node_mem, buf_data, req_mem, reqs, node_req, node_bcp>>]_vars

\* a reader of an older checkpoint met a node written in a newer one
C23_Witness ==
    /\ last_refresh.status = "cp_mismatch"
    /\ ~last_refresh.writeable
    /\ last_refresh.order = "newer"

\* C24: the buffer a request of checkpoint k holds while it is not COMPL is
\* never the buffer a mutator of checkpoint k+1 writes into: refresh_buf for
\* k+1 gives the node a deep copy whenever the request of the previous slot
\* exists and is not COMPL, so the bytes written for k are the node's bytes
\* at its last write() in k.
C24_StableImage ==
    \A r \in ReqIds :
        reqs[r].state # WB_REQ_COMPL =>
            /\ buf_data[req_mem[r]] = req_img[r]
            /\ node_bcp[reqs[r].bn] > reqs[r].cp => node_mem[reqs[r].bn] # req_mem[r]

\* a request of checkpoint k is at the block store while the node already has
\* other bytes, written in k+1 into its copy
C24_Witness ==
    \E r \in ReqIds :
        /\ reqs[r].state = WB_REQ_SENT
        /\ node_bcp[reqs[r].bn] = reqs[r].cp + 1
        /\ buf_data[node_mem[reqs[r].bn]] # buf_data[req_mem[r]]

\* C25: a callback handed to try_lock_flush runs exactly once: at once when no
\* flush is in progress, otherwise it is queued and run by the unlock_flush of
\* the flush in progress before is_flushing is cleared, so that no queued
\* callback is left behind when try_lock_flush races with unlock_flush.
C25_QueuedRunBeforeClear ==
    ~m_is_flushing => (m_block_flush_q = << >> /\ cb_run = 1..n_locks)

\* C26: the groups on the journal cover consecutive log_idx ranges without
\* overlap: group k+1 starts at start_log_idx(k) + n_records(k), the index
\* flushed up to never decreases from one group to the next, and no group is
\* written for a flush requested while nothing is pending.
C26_ConsecutiveGroups ==
    /\ \A i \in 1..Len(journal) : journal[i].n_log_records > 0
    /\ \A i \in 1..(Len(journal) - 1) :
           /\ journal[i + 1].start_log_idx = journal[i].start_log_idx + journal[i].n_log_records
           /\ journal[i + 1].m_flush_log_idx_upto >= journal[i].m_flush_log_idx_upto

\* C27: of the set_error calls on a request since its init(), concurrent or
\* one after the other, exactly the first returns true, and from its return on
\* get_status reports its error code; every later call returns false and
\* leaves the stored error as it is.
C27_FirstErrorWins ==
    [][/\ \A i \in 1..Len(se_hist') : se_hist'[i].ret = (i = 1)
       /\ (se_hist' # << >> /\ \A c \in SeCallers : se_pc'[c].pc = "idle")
              => get_status' = se_hist'[1].ec
       /\ (Len(se_hist') > Len(se_hist) /\ Len(se_hist) > 0) => err' = err]_vars

\* a second and a third thread called set_error with another code while the
\* first was between its compare-exchange and its store; the first code stays
C27_Witness ==
    /\ Len(se_hist) = 3
    /\ se_hist[2].overlapped /\ se_hist[2].ec # se_hist[1].ec
    /\ \A c \in SeCallers : se_pc[c].pc = "idle"
    /\ err = se_hist[1].ec
    /\ n_inits = 1

\* C28: a successor link that write() installs on the dependent's request
\* while that request's completion runs, or after it drained its queue, is not
\* lost: a request that is still WAITING after flush_buffers of its checkpoint
\* went through the list has a predecessor whose completion is yet to drain
\* its queue, so that its count reaches zero and the checkpoint completes.
C28_SuccessorNotLost ==
    \A r \in ReqIds :
        (reqs[r].state = WB_REQ_WAITING /\ cp_phase[reqs[r].cp] = "flushed")
            => \E q \in ReqIds :
                   /\ reqs[q].cpl = "none"
                   /\ \E i \in 1..Len(reqs[q].req_q) : reqs[q].req_q[i] = r

\* C29: the state of a request only moves forward, INIT -> WAITING -> SENT ->
\* COMPL, one transition at a time and each at most once: it is handed to the
\* block store at most once, and not before flush_buffers of its checkpoint
\* dropped its self-reference; a request nothing refers to any more is COMPL
\* (or INIT).
C29_StateForward ==
    [][/\ \A r \in ReqIds :
            /\ state_rank(reqs'[r].state) \in {state_rank(reqs[r].state), state_rank(reqs[r].state) + 1}
            /\ reqs'[r].n_blkstore_write \in {reqs[r].n_blkstore_write, reqs[r].n_blkstore_write + 1}
            /\ reqs'[r].n_blkstore_write <= 1
            /\ (reqs'[r].n_blkstore_write > reqs[r].n_blkstore_write)
                    <=> (reqs[r].state = WB_REQ_WAITING /\ reqs'[r].state = WB_REQ_SENT)
            /\ reqs'[r].state = WB_REQ_SENT => FlushPassed(r)'
       /\ \A r \in 1..Len(reqs') :
            /\ r \notin ReqIds => (reqs'[r].state = WB_REQ_WAITING /\ reqs'[r].n_blkstore_write = 0)
            /\ ~Referenced(r)' => reqs'[r].state \in {WB_REQ_COMPL, WB_REQ_INIT}]_vars

\* C30: within one checkpoint the write() calls on one node create one request
\* for it in the slot's list and raise the slot's dirty count once; a further
\* write only gives the request the node's memvec and adds dependency links,
\* and finds the request WAITING.
C30_OneRequestPerNode ==
    [][/\ \A r \in 1..Len(reqs'), q \in 1..Len(reqs') :
              (reqs'[r].bn = reqs'[q].bn /\ reqs'[r].cp = reqs'[q].cp) => r = q
       /\ \A c \in Cps :
              cp_phase'[c] = "open" =>
                  /\ m_dirty_buf_cnt'[CpSlot(c)] = Cardinality({r \in 1..Len(reqs') : reqs'[r].cp = c})
                  /\ Len(m_req_list'[CpSlot(c)]) = m_dirty_buf_cnt'[CpSlot(c)]
       /\ (n_writes' = n_writes + 1 /\ Len(reqs') = Len(reqs)) =>
              /\ UNCHANGED <<m_req_list, m_dirty_buf_cnt, node_req, node_bcp>>
              /\ wb_assert_ok'
              /\ \A r \in ReqIds :
                     /\ reqs'[r].state = reqs[r].state
                     /\ req_mem'[r] # req_mem[r] =>
                            (reqs[r].state = WB_REQ_WAITING /\ req_mem'[r] = node_mem'[reqs[r].bn])
       /\ (n_writes' = n_writes + 1 /\ Len(reqs') = Len(reqs) + 1) =>
              LET r == Len(reqs')
                  cp_id == CpSlot(reqs'[r].cp)
              IN  /\ m_req_list' = [m_req_list EXCEPT ![cp_id] = Append(@, r)]
                  /\ m_dirty_buf_cnt' = [m_dirty_buf_cnt EXCEPT ![cp_id] = @ + 1]
                  /\ node_req[reqs'[r].bn][cp_id] = NoReq
                  /\ node_req'[reqs'[r].bn][cp_id] = r]_vars

\* the only request of the checkpoint took the bytes of the second write of
\* its node and is counted once
C30_Witness ==
    /\ Len(reqs) = 1
    /\ n_writes = MaxMemWrites
    /\ req_img[1] = n_writes
    /\ reqs[1].state = WB_REQ_WAITING
    /\ m_dirty_buf_cnt[CpSlot(reqs[1].cp)] = 1

\* C31: prepare_cp gives new_cp the list m_free_list[++m_free_list_cnt %
\* MAX_CP_CNT] when a block allocator checkpoint is taken or there is no
\* current checkpoint, and the list of cur_cp (counter untouched) otherwise;
\* a list handed out fresh is empty, every checkpoint that owned it before
\* has ended and none of its blocks is still waiting for the allocator.
C31_FreshOrShared ==
    [][\A new \in Cps :
          (cp_phase[new] = "none" /\ cp_phase'[new] = "open") =>
              LET cur == new - 1
                  L == cp_free_list'[new]
              IN  IF cur = NoCp \/ cp_blkalloc'[cur]
                  THEN /\ m_free_list_cnt' = m_free_list_cnt + 1
                       /\ L = m_free_list_cnt' % MAX_CP_CNT
                       /\ m_free_list[L] = << >>
                       /\ wb_assert_ok' = wb_assert_ok
                       /\ \A d \in Cps : (d < new /\ cp_free_list[d] = L) =>
                              /\ CpEnded(d)
                              /\ \E e \in Cps : e >= d /\ e < new /\ cp_free_list[e] = L /\ cp_blkalloc[e]
                  ELSE /\ L = cp_free_list[cur]
                       /\ m_free_list_cnt' = m_free_list_cnt]_vars

\* checkpoint 3 got as its fresh list the one checkpoint 1 had filled, after
\* the allocator took the block of checkpoint 1
C31_Witness ==
    /\ cp_phase[3] = "open"
    /\ cp_blkalloc[1] /\ cp_blkalloc[2]
    /\ cp_free_list[3] = cp_free_list[1]
    /\ cp_free_list[3] # cp_free_list[2]
    /\ \E b \in ba_freed : b.cp = 1 /\ b.with = 1
    /\ wb_assert_ok

\* append_async(idx) has returned: the record is created and its size counted
Appended(idx) ==
    /\ idx \in DOMAIN m_log_records
    /\ \A t \in Threads : t_pc[t] = "idle" \/ t_idx[t] # idx

\* m_append_comp_cb was called for idx
HasCallback(idx) == \E e \in 1..Len(comp_log) : comp_log[e].idx = idx

\* the bound on the groups of the model keeps a flush that is due from starting
FlushCapped == n_groups >= MaxGroups /\ m_pending_flush_size # 0

\* C32: under fair scheduling (the device completes every group, the timer
\* keeps firing, a thread finishes its append_async) every record appended
\* with a payload eventually gets its append-completion callback, as long as
\* the process is up.
C32_EventuallyCompleted ==
    \A idx \in 0..(MaxAppends - 1) :
        [](Appended(idx) => <>(HasCallback(idx) \/ ld_state = "aborted" \/ FlushCapped))

\* C33: flush_if_needed(size_hint) takes pending to be the value that
\* pending_flush_size.fetch_add(size_hint) returns and starts a flush, when no
\* other flush holds is_flushing, exactly when pending >= the threshold or
\* pending > 0 and the flush interval has elapsed; otherwise the counter grows
\* by size_hint and nothing else changes.
C33_FlushDecision ==
    ret.fn = "flush_if_needed" =>
        LET pending == call.pending
            attempt == \/ pending >= FlushThresholdSize - LogGroupHeaderSize
                       \/ (pending > 0 /\ call.elapsed)
        IN  /\ ret.flushed <=> (attempt /\ ~call.is_flushing)
            /\ ~ret.flushed => /\ ret.pending = call.pending + call.new_record_size
                               /\ ret.is_flushing = call.is_flushing

\* the group at position k of the device does not pass for the next group of
\* the stream: no magic, a crc that is not the crc of its bytes, or a prev crc
\* that is not the crc of the group before it
FailsValidation(dev, k) ==
    \/ dev[k].magic # LOG_GROUP_HDR_MAGIC
    \/ dev[k].cur_grp_crc # compute_crc(dev[k].slots)
    \/ (k > 1 /\ dev[k].prev_grp_crc # dev[k - 1].cur_grp_crc)

\* the position of the first such group, behind the device if there is none
FirstFailing(dev) ==
    IF \E k \in 1..Len(dev) : FailsValidation(dev, k)
    THEN CHOOSE k \in 1..Len(dev) :
             FailsValidation(dev, k) /\ \A j \in 1..(k - 1) : ~FailsValidation(dev, j)
    ELSE Len(dev) + 1

DmaAligned == call.addr % dma_address_boundary = 0 /\ call.aligned

\* C35 (as stated): a record whose payload size equals
\* optimal_inline_data_size is inlined.
C35_BoundaryInlined ==
    (ret.fn = "is_inlineable" /\ call.size = OptimalInlineDataSize) => ret.inlined

\* C35 (amended): a record of optimal_inline_data_size bytes is inlined only
\* when its buffer is off the dma boundary, since its size is neither below
\* optimal_inline_data_size nor off a multiple of flush_size_multiple; a record
\* one byte smaller or one byte larger is always inlined; a record of a larger
\* multiple of flush_size_multiple in an aligned buffer goes out of band.
C35_BoundaryOob ==
    ret.fn = "is_inlineable" =>
        /\ call.size = OptimalInlineDataSize => (ret.inlined <=> ~DmaAligned)
        /\ call.size \in {OptimalInlineDataSize - 1, OptimalInlineDataSize + 1} => ret.inlined
        /\ (call.size > OptimalInlineDataSize /\ call.size % dma_address_boundary = 0)
               => (ret.inlined <=> ~DmaAligned)

\* a record of exactly optimal_inline_data_size bytes in an aligned buffer
\* was classified out of band
C35_Witness ==
    /\ ret.fn = "is_inlineable"
    /\ call.size = OptimalInlineDataSize
    /\ DmaAligned
    /\ ~ret.inlined

\* C36: under every interleaving of concurrent alloc calls, with or without
\* a reserved_blks hint, last_append_offset stays at or below total_blks, no
\* BlkId handed out ends past the end of the chunk, and available_blks is
\* total_blks - last_append_offset without wrapping.
C36_OffsetWithinChunk ==
    /\ m_last_append_offset <= TotalBlks
    /\ \A bid \in Issued : bid.blk_num + bid.blk_count <= TotalBlks
    /\ available_blks(m_last_append_offset) = TotalBlks - m_last_append_offset

\* record idx is in a group that prepare_flush has built
InPreparedGroup(idx) ==
    \/ idx <= m_last_flush_idx
    \/ \E g \in inflight : /\ g.start_log_idx <= idx
                           /\ idx < g.start_log_idx + g.n_log_records

\* C37: m_pending_flush_size is never negative, whatever the interleaving of
\* append_async with a flush preparation, and it is 0 whenever no append is
\* under way and every appended record is in a prepared group.
C37_PendingNeverNegative ==
    ld_state = "up" =>
        /\ m_pending_flush_size >= 0
        /\ ((\A t \in Threads : t_pc[t] = "idle")
               /\ (\A idx \in DOMAIN m_log_records : InPreparedGroup(idx)))
              => m_pending_flush_size = 0

\* how many times b was passed to free_blk in s
TimesFreed(b, s) == Cardinality({i \in 1..Len(s) : s[i] = b})

\* C38: when alloc_blk fails after some of its parts succeeded, every BlkId
\* the call appended to out_blkid is freed exactly once, out_blkid is back
\* to what it was at entry, and no BlkId that was there before the call is
\* freed or removed.
C38_RollbackFreesAll ==
    vd_last.status \notin {"NONE", "SUCCESS"} =>
        /\ \A i \in 1..Len(vd_last.appended) : TimesFreed(vd_last.appended[i], vd_last.freed) = 1
        /\ vd_last.out = vd_last.entry
        /\ \A i \in 1..Len(vd_last.entry) : TimesFreed(vd_last.entry[i], vd_last.freed) = 0

\* the allocation of the part at hand fails on every chunk of the vdev
FailsOnEveryChunk ==
    \A c \in VdChunks :
        alloc_blk_from_chunk(nblks_op(vd_pc.nblks), c, chunk_used).status # "SUCCESS"

\* C39: do_alloc_blk comes to an end: when the allocation fails on every
\* chunk and hints.can_look_for_other_chunk is true, the loop over the
\* chunks is left and the failure status is returned.
C39_DoAllocBlkReturns ==
    []((vd_pc.pc = "select" /\ vd_pc.can_look /\ FailsOnEveryChunk)
          => <>(vd_pc.pc = "idle" /\ vd_last.status \notin {"NONE", "SUCCESS"}))

\* C40: for every idx of the group, log_group_header::data(idx) takes
\* record slot idx - start_log_idx and returns the place and the size that
\* LogDev::read computes for that record: record.offset, plus
\* oob_data_offset when the record is not inlined.
C40_DataAgreesWithRead ==
    ret.fn = "data" =>
        LET header == call.header
            n == call.idx - header.start_log_idx
        IN  /\ ~ret.fault
            /\ ret.n = n
            /\ ret.offset = DataOffset(header, n + 1)
            /\ ret.size = header.slots[n + 1].size

====
